---- MODULE Spec2Model ----
(***************************************************************************)
(* tcpwatch (Electron main process): the capture session controller, the   *)
(* per-stream splitter, the index builder and the readSplitIndex import    *)
(* path, as one state machine.  Every action is one turn of the Node event *)
(* loop: the synchronous prefix of a handler up to its first await, or the *)
(* continuation that runs when an awaited child process closes.            *)
(***************************************************************************)
EXTENDS Integers, Sequences, FiniteSets, TLC

(* ------------------------------ bounds -------------------------------- *)
\* capture processes ever spawned
MaxCaptures == 2
\* live-connection stream processes ever spawned
MaxChildren == 4
\* rows of the metadata scan that is followed line by line
MaxScanRows == 2
\* resolver calls (splits and reconstructions) followed in one process
MaxResolverCalls == 2
\* splitCaptureByTcpStream invocations ever started
MaxSplits == 2
\* readSplitIndex requests ever served
MaxReads == 2
\* readSplitIndex requests in the specifications of the session and of the splitter
CtlReads == 1
\* largest tcp.stream id the enumeration prints
MaxStreamId == 2
\* longest enumeration output (lines)
MaxRawLen == 3
\* streams of the non-empty capture in the session controller's specification
CtlStreams == 2

(* ------------------------- program constants -------------------------- *)
DefaultSnapLen == 200
MinSnapLen == 64
MaxSnapLen == 262144
PadWidth == 5
DefaultTimeoutMs == 2000
MinTimeoutMs == 200
MaxTimeoutMs == 10000
DefaultConcurrency == 8
MinConcurrency == 1
MaxConcurrency == 32
MinPort == 1
MaxPort == 65535

(* ------------------------------ values -------------------------------- *)
\* captureChild === null
NoProc == 0
\* child === null
NoChild == 0
\* captureStatus.filePath === undefined
NoFile == -1
\* captureStatus.splitDir === undefined
NoDir == 0
\* captureStatus.dumpDir === undefined, and the one dump folder of the model
NoDumpDir == ""
DumpDir == "dump"
\* a capture file that is in the dump folder before the program starts
ImportedFile == 0
\* index.captureFile of a reconstructed manifest: '(imported)'
ImportedMark == -2

\* a raw snapLen as a request carries it: undefined, null, a string that is empty
\* or blank, a value Number() does not convert (NaN), an infinity, or a number
\* (n: its value after Math.trunc)
Undef == [kind |-> "undefined", n |-> 0]
Null == [kind |-> "null", n |-> 0]
Blank == [kind |-> "blank", n |-> 0]
NotANumber == [kind |-> "nan", n |-> 0]
Infinite == [kind |-> "inf", n |-> 0]
Num(n) == [kind |-> "num", n |-> n]

Max2(a, b) == IF a >= b THEN a ELSE b
Min2(a, b) == IF a <= b THEN a ELSE b

\* a positive value is used as it is
normalizeSnapLenUnclamped(raw, fallback) ==
    IF raw.kind \in {"undefined", "null", "blank"} THEN fallback
    ELSE IF raw.kind \in {"nan", "inf"} THEN fallback
    ELSE IF raw.n <= 0 THEN 0
    ELSE raw.n

\* function normalizeSnapLen(raw, fallback)
normalizeSnapLen(raw, fallback) ==
    IF raw.kind \in {"undefined", "null", "blank"} THEN fallback
    ELSE IF raw.kind \in {"nan", "inf"} THEN fallback
    ELSE IF raw.n <= 0 THEN 0
    ELSE Max2(MinSnapLen, Min2(MaxSnapLen, raw.n))

\* snapLen values the requests of the model carry
SnapInputs == {Undef, Num(0)}

\* snapLen values of every kind, and numbers around 0 and around both ends of the
\* enforced range
WideSnapInputs ==
    {Undef, Null, Blank, NotANumber, Infinite}
        \cup {Num(n) : n \in {-5, 0, 1, MinSnapLen - 1, MinSnapLen, DefaultSnapLen,
                              MaxSnapLen, MaxSnapLen + 1}}

(* --------------------------- stream file names ------------------------ *)
RECURSIVE DigitsOf(_)
\* String(id): the decimal digits of a non-negative integer
DigitsOf(n) == IF n < 10 THEN <<n>> ELSE Append(DigitsOf(n \div 10), n % 10)

RECURSIVE padStart(_, _, _)
padStart(s, width, ch) == IF Len(s) >= width THEN s ELSE padStart(<<ch>> \o s, width, ch)

\* a directory entry: the text before the digits, the digits, the extension
Name(stem, digits, ext) == [stem |-> stem, digits |-> digits, ext |-> ext]

\* the name is made from the parity of the id alone
StreamFileNameParity(id) == Name("tcp-stream-", padStart(<<id % 2>>, PadWidth, 0), "pcapng")

\* `tcp-stream-${String(id).padStart(5, '0')}.pcapng`
StreamFileName(id) == Name("tcp-stream-", padStart(DigitsOf(id), PadWidth, 0), "pcapng")

\* path.join(splitDir, 'index.json')
IndexName == Name("index", <<>>, "json")

\* `${outFile}.tmp`
TmpName(name) == [name EXCEPT !.ext = "pcapng.tmp"]

\* `${outputFile}.snap.tmp`
SnapTmpName(name) == [name EXCEPT !.ext = "pcapng.snap.tmp"]

\* /^tcp-stream-\d{5}\.(pcap|pcapng)$/i
IsStreamFileName(name) ==
    /\ name.stem = "tcp-stream-"
    /\ Len(name.digits) = PadWidth
    /\ name.ext \in {"pcap", "pcapng"}

RECURSIVE NumberOf(_)
\* Number(m[1]) of a digit string
NumberOf(ds) == IF ds = <<>> THEN 0 ELSE 10 * NumberOf(SubSeq(ds, 1, Len(ds) - 1)) + ds[Len(ds)]

(* ------------------------------ sorting ------------------------------- *)
SetMin(S) == CHOOSE x \in S : \A y \in S : x <= y

RECURSIVE SortAsc(_)
\* Array.from(set).sort((a, b) => a - b)
SortAsc(S) == IF S = {} THEN <<>> ELSE <<SetMin(S)>> \o SortAsc(S \ {SetMin(S)})

Range(s) == {s[k] : k \in 1..Len(s)}

\* the enumeration's stdout: one tcp.stream value per packet
RawOutputs == UNION {[1..n -> 0..MaxStreamId] : n \in 0..MaxRawLen}

RECURSIVE SortDesc(_)
SortDesc(S) == IF S = {} THEN <<>> ELSE SortDesc(S \ {SetMin(S)}) \o <<SetMin(S)>>

\* the enumeration forgets to sort ascending
StreamIdsUnsorted(raw) == SortDesc(Range(raw))

\* the stream ids the close handler of the enumeration resolves with
StreamIdsOf(raw) == SortAsc(Range(raw))

(* ------------------------------- state -------------------------------- *)
VARIABLES
    captureChild,   \* let captureChild: the tracked capture process, or NoProc
    captureStatus,  \* let captureStatus
    procs,          \* the capture processes spawned so far: whether each has exited, and
                    \* while it runs the snapLen its start request computed
    startReply,     \* what the last tcpwatch:startCapture request answered
    capFiles,       \* capture files (.pcapng) present in the dump folder
    capMru,         \* the capture files, least recently modified first
    dirs,           \* the tcpwatch-split-<ts> folders: stream files, temp files, index.json
    dirMru,         \* the split folders, least recently modified first
    splits,         \* the invocations of splitCaptureByTcpStream
    reads,          \* the tcpwatch:readSplitIndex requests
    rdns,           \* the one call of resolveHostnamesForStreamMeta that is followed in detail
    child,          \* let child: the tracked live-connection stream process, or NoChild
    childProcs,     \* the stream processes spawned so far
    scan,           \* one metadata scan followed line by line, up to the records built from it
    processEnv      \* process.env, the .env file, and the settings each resolver call read

vars == <<captureChild, captureStatus, procs, startReply, capFiles, capMru, dirs, dirMru, splits, reads,
          rdns, child, childProcs, scan, processEnv>>

Procs == 1..MaxCaptures
Children == 1..MaxChildren
SplitIds == 1..MaxSplits
ReadIds == 1..MaxReads

NoIndex == [exists |-> FALSE, captureFile |-> NoFile, streams |-> <<>>]
NoCaller == [kind |-> "none", id |-> 0]
NoResult == [kind |-> "pending", dir |-> NoDir, captureFile |-> NoFile, streams |-> <<>>]

UnusedSplit ==
    [pc |-> "unused", captureFile |-> NoFile, requested |-> Undef, snapLen |-> 0,
     caller |-> NoCaller,
     enumerated |-> {}, streamIds |-> <<>>, scans |-> 0, scanLog |-> 0, metaIds |-> {},
     resolves |-> 0, extractStarted |-> 0, records |-> <<>>, progress |-> <<>>,
     snapRes |-> <<>>, warnings |-> <<>>, startEv |-> 0, doneEv |-> 0, doneTotal |-> 0,
     error |-> "none",
     surfaced |-> "none"]

UnusedRead ==
    [pc |-> "unused", path |-> [kind |-> "none", id |-> 0], dir |-> NoDir, listing |-> {},
     afterSplit |-> FALSE, scanOk |-> {}, probes |-> <<>>, result |-> NoResult,
     activeAtRequest |-> FALSE]

\* no call of the resolver is followed
IdleResolver ==
    [pc |-> "idle", owner |-> NoCaller, enabled |-> TRUE, limit |-> 0, timeoutMs |-> 0, ips |-> <<>>,
     meta |-> <<>>, nextIndex |-> 0, workers |-> <<>>, calls |-> <<>>, cache |-> <<>>, now |-> 0]

\* no metadata scan is followed
IdleScan ==
    [pc |-> "idle", mode |-> "split", rows |-> <<>>, next |-> 1, meta |-> <<>>, records |-> <<>>]

\* a process started with none of the resolver variables set and no .env file
UnsetEnv == [rdns |-> "unset", timeoutMs |-> Undef, concurrency |-> Undef]
QuietEnv ==
    [vars |-> UnsetEnv, atStartup |-> UnsetEnv, dotenv |-> UnsetEnv, envLoaded |-> FALSE,
     used |-> <<>>]

\* the program after start-up: no capture, no split, no request served
CoreInit ==
    /\ captureChild = NoProc
    /\ captureStatus = [running |-> FALSE, dumpDir |-> NoDumpDir, filePath |-> NoFile,
                        snapLen |-> Undef, splitting |-> FALSE, splitDir |-> NoDir]
    /\ procs = [p \in Procs |-> [state |-> "unused", signalled |-> FALSE, snapLen |-> 0]]
    /\ startReply = "none"
    /\ splits = [s \in SplitIds |-> UnusedSplit]
    /\ reads = [r \in ReadIds |-> UnusedRead]
    /\ rdns = IdleResolver
    /\ child = NoChild
    /\ childProcs = [k \in Children |-> [state |-> "unused", signalled |-> FALSE]]

SessionInit ==
    /\ CoreInit
    /\ scan = IdleScan
    /\ processEnv = QuietEnv

NoFolder == [made |-> FALSE, files |-> {}, tmp |-> {}, index |-> NoIndex]

\* a dump folder that holds one capture file and no split folder
Init ==
    /\ SessionInit
    /\ capFiles = {ImportedFile}
    /\ capMru = <<ImportedFile>>
    /\ dirs = [d \in SplitIds |-> NoFolder]
    /\ dirMru = <<>>

(* ------------------------------ helpers ------------------------------- *)
LiveProcs == {p \in Procs : procs[p].state = "running"}
UsedProcs == {p \in Procs : procs[p].state # "unused"}
UsedSplits == {s \in SplitIds : splits[s].pc # "unused"}
UsedReads == {r \in ReadIds : reads[r].pc # "unused"}
RunningSplits == {s \in SplitIds : splits[s].pc \in {"enum", "scan", "resolve", "extract"}}

\* arr.filter(x => x !== d).concat(d): d becomes the most recently modified
Touch(mru, d) == SelectSeq(mru, LAMBDA x : x # d) \o <<d>>

\* function sendCaptureStatus(partial): captureStatus = { ...captureStatus, ...partial }
sendCaptureStatus(st, partial) ==
    [f \in DOMAIN st |-> IF f \in DOMAIN partial THEN partial[f] ELSE st[f]]

(* ------------------------ splitCaptureByTcpStream --------------------- *)
\* the slot (and timestamp) of the next invocation: every invocation takes a
\* fresh `tcpwatch-split-${ts}` folder
NextSplit == Cardinality({d \in SplitIds : dirs[d].made}) + 1
CanSplit == NextSplit <= MaxSplits

\* the synchronous prefix: mkdirSync(splitDir), sendCaptureStatus({splitting: true,
\* splitDir, snapLen}), captureSplitStart, spawn of the stream enumeration
BeginSplit(st, file, rawSnap, caller) ==
    LET s == NextSplit
        eff == normalizeSnapLen(rawSnap, DefaultSnapLen)
    IN  /\ splits' = [splits EXCEPT ![s] =
                [UnusedSplit EXCEPT !.pc = "enum", !.captureFile = file,
                                    !.requested = rawSnap, !.snapLen = eff,
                                    !.caller = caller, !.startEv = 1]]
        /\ dirs' = [dirs EXCEPT ![s].made = TRUE]
        /\ dirMru' = Touch(dirMru, s)
        /\ captureStatus' = sendCaptureStatus(st,
                [splitting |-> TRUE, splitDir |-> s, snapLen |-> Num(eff)])

\* what the caller's continuation leaves in captureStatus when the split rejects:
\* the exit handler catches and clears splitting; readSplitIndex does not
StatusAfterSplitFailure(st, callerKind) ==
    IF callerKind = "capture" THEN sendCaptureStatus(st, [splitting |-> FALSE]) ELSE st

\* the answer of the readSplitIndex request that awaited a split that rejected:
\* the capture-file branch rethrows, the folder branch swallows and then finds
\* no index.json
ReadAfterSplitFailure(rd, callerKind) ==
    [rd EXCEPT !.pc = "done",
               !.result = [NoResult EXCEPT !.kind =
                    IF callerKind = "readFile" THEN "errSplit" ELSE "errNotFound"]]

\* JSON.parse(fs.readFileSync(indexPath)) of folder d, as the reply of a request
ManifestOf(d, index) ==
    [kind |-> "manifest", dir |-> d, captureFile |-> index.captureFile, streams |-> index.streams]

\* what the caller of a split that rejected does with the error: the exit handler
\* sends 'Capture split failed', the capture-file branch of readSplitIndex lets it
\* through to the requester, the folder branch catches it
SurfacedAs(callerKind) ==
    IF callerKind = "capture" THEN "errorEvent"
    ELSE IF callerKind = "readFile" THEN "thrown"
    ELSE "caught"

\* the rejection path also announces the split as done
RejectSplitAnnouncingDone(s, sp, why) ==
    /\ splits' = [splits EXCEPT ![s] = [sp EXCEPT !.pc = "failed", !.error = why,
                                                  !.surfaced = SurfacedAs(sp.caller.kind),
                                                  !.doneEv = @ + 1]]
    /\ captureStatus' = StatusAfterSplitFailure(captureStatus, sp.caller.kind)
    /\ reads' = IF sp.caller.kind \in {"readFile", "readDir"}
                THEN [reads EXCEPT ![sp.caller.id] = ReadAfterSplitFailure(@, sp.caller.kind)]
                ELSE reads

\* the promise of invocation s rejects (sp is its record at that point)
RejectSplit(s, sp, why) ==
    /\ splits' = [splits EXCEPT ![s] = [sp EXCEPT !.pc = "failed", !.error = why,
                                                  !.surfaced = SurfacedAs(sp.caller.kind)]]
    /\ captureStatus' = StatusAfterSplitFailure(captureStatus, sp.caller.kind)
    /\ reads' = IF sp.caller.kind \in {"readFile", "readDir"}
                THEN [reads EXCEPT ![sp.caller.id] = ReadAfterSplitFailure(@, sp.caller.kind)]
                ELSE reads

\* captureSplitDone is sent and the function returns without writing index.json
FinishSplitWithoutManifest(s, sp, dr) ==
    LET index == [exists |-> TRUE, captureFile |-> sp.captureFile, streams |-> sp.records]
    IN  /\ splits' = [splits EXCEPT ![s] = [sp EXCEPT !.pc = "done", !.doneEv = @ + 1,
                                                      !.doneTotal = Len(sp.streamIds)]]
        /\ dirs' = [dirs EXCEPT ![s] = dr]
        /\ dirMru' = Touch(dirMru, s)
        /\ captureStatus' = sendCaptureStatus(captureStatus, [splitting |-> FALSE])
        /\ reads' = IF sp.caller.kind \in {"readFile", "readDir"}
                    THEN [reads EXCEPT ![sp.caller.id] =
                            [@ EXCEPT !.pc = "done", !.result = ManifestOf(s, index)]]
                    ELSE reads

\* after the loop: writeFileSync(index.json), captureSplitDone { splitDir,
\* totalStreams: total }, sendCaptureStatus({splitting: false}), return; then the
\* caller's continuation
FinishSplit(s, sp, dr) ==
    LET index == [exists |-> TRUE, captureFile |-> sp.captureFile, streams |-> sp.records]
    IN  /\ splits' = [splits EXCEPT ![s] = [sp EXCEPT !.pc = "done", !.doneEv = @ + 1,
                                                      !.doneTotal = Len(sp.streamIds)]]
        /\ dirs' = [dirs EXCEPT ![s] = [dr EXCEPT !.index = index]]
        /\ dirMru' = Touch(dirMru, s)
        /\ captureStatus' = sendCaptureStatus(captureStatus, [splitting |-> FALSE])
        /\ reads' = IF sp.caller.kind \in {"readFile", "readDir"}
                    THEN [reads EXCEPT ![sp.caller.id] =
                            [@ EXCEPT !.pc = "done", !.result = ManifestOf(s, index)]]
                    ELSE reads

\* the loop spawns the extraction of the following stream together with this one
SpawnExtractionAhead(s, sp, dr) ==
    LET id == sp.streamIds[Len(sp.records) + 1]
    IN  /\ splits' = [splits EXCEPT ![s] = [sp EXCEPT !.pc = "extract", !.extractStarted = @ + 2]]
        /\ dirs' = [dirs EXCEPT ![s] = [dr EXCEPT !.tmp = @ \cup {TmpName(StreamFileName(id))}]]
        /\ dirMru' = Touch(dirMru, s)
        /\ UNCHANGED <<captureStatus, reads>>

\* the loop calls the resolver again for every stream
SpawnExtractionResolving(s, sp, dr) ==
    LET id == sp.streamIds[Len(sp.records) + 1]
    IN  /\ splits' = [splits EXCEPT ![s] = [sp EXCEPT !.pc = "extract", !.extractStarted = @ + 1,
                                                      !.resolves = @ + 1]]
        /\ dirs' = [dirs EXCEPT ![s] = [dr EXCEPT !.tmp = @ \cup {TmpName(StreamFileName(id))}]]
        /\ dirMru' = Touch(dirMru, s)
        /\ UNCHANGED <<captureStatus, reads>>

\* the head of one loop iteration: rm of a stale temp file, spawn of
\* tshark -Y tcp.stream==id -w tmpFile
SpawnExtraction(s, sp, dr) ==
    LET id == sp.streamIds[Len(sp.records) + 1]
    IN  /\ splits' = [splits EXCEPT ![s] = [sp EXCEPT !.pc = "extract", !.extractStarted = @ + 1]]
        /\ dirs' = [dirs EXCEPT ![s] = [dr EXCEPT !.tmp = @ \cup {TmpName(StreamFileName(id))}]]
        /\ dirMru' = Touch(dirMru, s)
        /\ UNCHANGED <<captureStatus, reads>>

\* the loop condition i < total
LoopOrFinish(s, sp, dr) ==
    IF Len(sp.records) < Len(sp.streamIds) THEN SpawnExtraction(s, sp, dr) ELSE FinishSplit(s, sp, dr)

\* close of the stream enumeration; on success loadStreamEndpoints spawns the
\* one metadata scan of the capture file
EnumClose(s, ok, raw) ==
    /\ splits[s].pc = "enum"
    /\  IF ok
        THEN /\ splits' = [splits EXCEPT ![s].pc = "scan", ![s].enumerated = Range(raw),
                                          ![s].streamIds = StreamIdsOf(raw), ![s].scans = @ + 1]
             /\ UNCHANGED <<captureStatus, reads>>
        ELSE RejectSplit(s, splits[s], "enum")
    /\ UNCHANGED <<captureChild, procs, startReply, capFiles, capMru, dirs, dirMru>>

\* the rejection of loadStreamEndpoints is not caught
ScanRejectsUncaught(scanOk) == ~scanOk

\* loadStreamEndpoints().catch((e) => { ...captureLog...; return new Map() })
ScanRejects(scanOk) == FALSE

\* close of the metadata scan: loadStreamEndpoints resolves with the endpoints of
\* the streams it found (endpoints: their ids) or rejects, which is caught, logged
\* and replaced by an empty map; then resolveHostnamesForStreamMeta, which awaits
\* lookups when there are addresses to resolve and returns at once otherwise
ScanClose(s, scanOk, endpoints, lookups) ==
    /\ splits[s].pc = "scan"
    /\ endpoints \subseteq Range(splits[s].streamIds)
    /\ lookups => scanOk /\ endpoints # {}
    /\ LET sp == [splits[s] EXCEPT !.metaIds = IF scanOk THEN endpoints ELSE {},
                                   !.scanLog = IF scanOk THEN @ ELSE @ + 1,
                                   !.resolves = @ + 1]
       IN  IF ScanRejects(scanOk)
           THEN /\ RejectSplit(s, splits[s], "scan")
                /\ UNCHANGED <<dirs, dirMru>>
           ELSE IF lookups
           THEN /\ splits' = [splits EXCEPT ![s] = [sp EXCEPT !.pc = "resolve"]]
                /\ UNCHANGED <<captureStatus, reads, dirs, dirMru>>
           ELSE LoopOrFinish(s, sp, dirs[s])
    /\ UNCHANGED <<captureChild, procs, startReply, capFiles, capMru>>

\* the last lookup of resolveHostnamesForStreamMeta settles
ResolveDone(s) ==
    /\ splits[s].pc = "resolve"
    /\ LoopOrFinish(s, splits[s], dirs[s])
    /\ UNCHANGED <<captureChild, procs, startReply, capFiles, capMru>>

(* ---------------------------- getPcapFileStats ------------------------ *)
\* sizeBytes / packetCount === undefined
Unknown == -1

\* what fs.statSync(filePath) does: a regular file of some size, something that
\* is not a file, an exception
StatOutcomes ==
    {[kind |-> "file", size |-> n] : n \in {0, 24}}
        \cup {[kind |-> "other", size |-> 0], [kind |-> "throws", size |-> 0]}

\* what the summary run (tshark -q -z io,stat,0) does: the tool is not found or
\* spawnSync throws; it ends with a status (-1: killed at the timeout) and prints
\* a Frames value or none
NoFrames == -1
SummaryOutcomes ==
    {[kind |-> "throws", status |-> 0, frames |-> NoFrames]}
        \cup {[kind |-> "ran", status |-> st, frames |-> NoFrames] : st \in {1, -1}}
        \cup {[kind |-> "ran", status |-> 0, frames |-> f] : f \in {NoFrames, 0, 3}}

Probes == [stat : StatOutcomes, summary : SummaryOutcomes]

\* both probes report what they were asked for
GoodProbe ==
    [stat |-> [kind |-> "file", size |-> 24],
     summary |-> [kind |-> "ran", status |-> 0, frames |-> 3]]

\* the probes are not guarded: an exception of one leaves the function
ProbeRaisesUncaught(probe) == probe.stat.kind = "throws" \/ probe.summary.kind = "throws"

\* try { ... } catch { /* ignore */ } around each of the two probes
ProbeRaises(probe) == FALSE

\* function getPcapFileStats: { sizeBytes, packetCount }
getPcapFileStats(probe) ==
    [sizeBytes |-> IF probe.stat.kind = "file" THEN probe.stat.size ELSE Unknown,
     packetCount |->
        IF probe.summary.kind = "ran" /\ probe.summary.status = 0
                /\ probe.summary.frames # NoFrames
        THEN probe.summary.frames ELSE Unknown]

(* ----------------------- one iteration of the loop --------------------- *)
\* how resolveEditcapPath and editcap behave for one stream
SnapTools == {"ok", "missing", "fails"}

\* function applySnapLenToFile: { applied, message? }
\* (invoked: editcap was run)
applySnapLenToFile(snapLen, tool) ==
    IF snapLen <= 0 THEN [applied |-> FALSE, message |-> FALSE, invoked |-> FALSE]
    ELSE IF tool = "missing" THEN [applied |-> FALSE, message |-> TRUE, invoked |-> FALSE]
    ELSE IF tool = "fails" THEN [applied |-> FALSE, message |-> TRUE, invoked |-> TRUE]
    ELSE [applied |-> TRUE, message |-> FALSE, invoked |-> TRUE]

\* the untruncated extraction is renamed only when truncation is switched off
KeepOriginalOnlyWhenOff(snapRes) == ~snapRes.applied /\ ~snapRes.message

\* if (!snapRes.applied) fs.renameSync(tmpFile, outFile)
KeepOriginal(snapRes) == ~snapRes.applied

\* the progress event counts from 0
ProgressEventFromZero(i, total, id) ==
    [current |-> i, total |-> total, streamId |-> id, file |-> StreamFileName(id)]

\* captureSplitProgress { current: i + 1, total, streamId: id, file: fileName }
ProgressEvent(i, total, id) ==
    [current |-> i + 1, total |-> total, streamId |-> id, file |-> StreamFileName(id)]

\* a failed extraction is skipped and the loop goes on
ExtractionFailureSkips(ok) == FALSE

\* proc.on('close'): if (code !== 0) reject(...)
ExtractionRejects(ok) == ~ok

\* the temp files of the folder when applySnapLenToFile returns: editcap, when it
\* is run, writes the .snap.tmp file, which is renamed to the final name on
\* success and removed on failure
TmpAfterSnapLen(tmp, name, snapRes) ==
    LET written == IF snapRes.invoked THEN tmp \cup {SnapTmpName(name)} ELSE tmp
    IN  written \ {SnapTmpName(name)}

\* the extraction is left beside the truncated file
LeaveTmpAfterApplied(tmp, name) == tmp

\* else { if (fs.existsSync(tmpFile)) fs.rmSync(tmpFile) }
RemoveTmpAfterApplied(tmp, name) == tmp \ {TmpName(name)}

\* the stream files of a folder after one stream has been finalised
FilesAfterStream(dr, sp, id, snapRes) ==
    LET name == StreamFileName(id)
        tmp == TmpAfterSnapLen(dr.tmp, name, snapRes)
    IN  IF snapRes.applied
        THEN [dr EXCEPT !.files = @ \cup {[name |-> name, cap |-> sp.captureFile, id |-> id, trunc |-> TRUE]},
                        !.tmp = RemoveTmpAfterApplied(tmp, name)]
        ELSE IF KeepOriginal(snapRes)
        THEN [dr EXCEPT !.files = @ \cup {[name |-> name, cap |-> sp.captureFile, id |-> id, trunc |-> FALSE]},
                        !.tmp = tmp \ {TmpName(name)}]
        ELSE [dr EXCEPT !.tmp = tmp]

\* the record pushed to index.streams, the progress event and the snaplen warning
SplitAfterStream(sp, id, snapRes, probe) ==
    LET i == Len(sp.records)
        stats == getPcapFileStats(probe)
    IN  [sp EXCEPT !.records = Append(@, [id |-> id, file |-> StreamFileName(id),
                                          endpoints |-> id \in sp.metaIds,
                                          sizeBytes |-> stats.sizeBytes,
                                          packetCount |-> stats.packetCount]),
                   !.progress = Append(@, ProgressEvent(i, Len(sp.streamIds), id)),
                   !.snapRes = Append(@, snapRes),
                   !.warnings = IF snapRes.message THEN Append(@, StreamFileName(id)) ELSE @]

\* close of the extraction of one stream, the rest of the iteration, and either the
\* head of the next iteration or the end of the function
ExtractClose(s, ok, tool, probe) ==
    /\ splits[s].pc = "extract"
    /\ LET sp == splits[s]
           id == sp.streamIds[Len(sp.records) + 1]
       IN   IF ExtractionRejects(ok)
            THEN /\ RejectSplit(s, sp, "extract")
                 /\ UNCHANGED <<dirs, dirMru>>
            ELSE LET snapRes == applySnapLenToFile(sp.snapLen, tool)
                 IN  IF ProbeRaises(probe)
                     THEN /\ RejectSplit(s, sp, "stats")
                          /\ dirs' = [dirs EXCEPT ![s] = FilesAfterStream(dirs[s], sp, id, snapRes)]
                          /\ UNCHANGED dirMru
                     ELSE LoopOrFinish(s, SplitAfterStream(sp, id, snapRes, probe),
                                       FilesAfterStream(dirs[s], sp, id, snapRes))
    /\ UNCHANGED <<captureChild, procs, startReply, capFiles, capMru>>

(* --------------------------- capture session -------------------------- *)
\* a start request as the handler's checks see it
StartOptions ==
    [tsharkFound : BOOLEAN, dumpDirExists : BOOLEAN, ifaceGiven : BOOLEAN, portValid : BOOLEAN,
     snapLen : SnapInputs]

\* the guard is missing
NeverBusy == FALSE

\* if (captureChild) throw new Error('Capture already running')
CaptureBusy == captureChild # NoProc

\* the validation of a start request: the error it throws, or "ok"
ValidateStart(opts) ==
    IF ~opts.tsharkFound THEN "tshark not found"
    ELSE IF ~opts.dumpDirExists THEN "Dump folder does not exist"
    ELSE IF ~opts.ifaceGiven THEN "Capture interface is required"
    ELSE IF ~opts.portValid THEN "Invalid port"
    ELSE "ok"

\* ipcMain.handle('tcpwatch:startCapture')
StartCapture(opts) ==
    IF CaptureBusy
    THEN /\ startReply' = "Capture already running"
         /\ UNCHANGED <<captureChild, captureStatus, procs, capFiles, capMru, dirs, dirMru, splits, reads>>
    ELSE IF ValidateStart(opts) # "ok"
    THEN /\ startReply' = ValidateStart(opts)
         /\ UNCHANGED <<captureChild, captureStatus, procs, capFiles, capMru, dirs, dirMru, splits, reads>>
    ELSE LET p == Cardinality(UsedProcs) + 1
         IN  /\ p <= MaxCaptures
             /\ procs' = [procs EXCEPT ![p].state = "running",
                                         ![p].snapLen = normalizeSnapLen(opts.snapLen, DefaultSnapLen)]
             /\ captureChild' = p
             /\ captureStatus' = sendCaptureStatus(captureStatus,
                    [running |-> TRUE, dumpDir |-> DumpDir, filePath |-> p,
                     snapLen |-> Num(normalizeSnapLen(opts.snapLen, DefaultSnapLen)),
                     splitting |-> FALSE, splitDir |-> NoDir])
             /\ startReply' = "ok"
             /\ UNCHANGED <<capFiles, capMru, dirs, dirMru, splits, reads>>

\* stopCaptureChild clears the pointer itself
stopCaptureChildClears(tracked) == NoProc

\* function stopCaptureChild: captureChild.kill('SIGTERM') leaves the pointer alone
stopCaptureChild(tracked) == tracked

\* ipcMain.handle('tcpwatch:stopCapture')
StopCapture ==
    IF captureChild = NoProc
    THEN UNCHANGED vars
    ELSE /\ procs' = [procs EXCEPT ![captureChild].signalled = TRUE]
         /\ captureChild' = stopCaptureChild(captureChild)
         /\ UNCHANGED <<captureStatus, startReply, capFiles, capMru, dirs, dirMru, splits, reads>>

\* tshark -w filePath creates the capture file while it runs
CaptureWrites(p) ==
    /\ procs[p].state = "running"
    /\ p \notin capFiles
    /\ capFiles' = capFiles \cup {p}
    /\ capMru' = Touch(capMru, p)
    /\ UNCHANGED <<captureChild, captureStatus, procs, startReply, dirs, dirMru, splits, reads>>

\* the split runs whatever the file system says
AlwaysSplit(st, code) == TRUE

\* if (captureStatus.filePath && fs.existsSync(captureStatus.filePath) && captureStatus.dumpDir)
ShouldSplit(st, code) == st.filePath # NoFile /\ st.filePath \in capFiles /\ st.dumpDir # NoDumpDir

\* the exit codes of the model: 0, an error, null (killed by a signal)
ExitCodes == {0, 1, -1}

\* proc.on('exit') of capture process p, with any code or signal; the code only
\* chooses whether a 'tshark exited' message follows
CaptureExit(p, code) ==
    /\ procs[p].state = "running"
    /\ procs' = [procs EXCEPT ![p] = [state |-> "exited", signalled |-> FALSE, snapLen |-> 0]]
    /\ captureChild' = IF captureChild = p THEN NoProc ELSE captureChild
    /\ LET st == sendCaptureStatus(captureStatus, [running |-> FALSE])
       IN  IF ShouldSplit(st, code)
           THEN /\ CanSplit
                /\ BeginSplit(st, st.filePath, st.snapLen, [kind |-> "capture", id |-> p])
           ELSE /\ captureStatus' = st
                /\ UNCHANGED <<dirs, dirMru, splits>>
    /\ UNCHANGED <<startReply, capFiles, capMru, reads>>

(* ------------------------ buildSplitIndexFromStreamsDir ---------------- *)
\* fs.readdirSync(dir): stream files, temp files of extractions, index.json
DirEntries(d) ==
    {f.name : f \in dirs[d].files} \cup dirs[d].tmp
        \cup (IF dirs[d].index.exists THEN {IndexName} ELSE {})

\* function isLikelySplitFolder, for a tcpwatch-split-* folder
isLikelySplitFolder(d) == \E n \in DirEntries(d) : IsStreamFileName(n)

\* the listing keeps every directory entry
StreamListingUnfiltered(d) == DirEntries(d)

\* readdirSync(splitDir) filtered by the stream file pattern
StreamListing(d) == {n \in DirEntries(d) : IsStreamFileName(n)}

\* the listing order of two names, then the comparator a.id - b.id of a stable sort
NameBefore(n, o) ==
    \/ NumberOf(n.digits) < NumberOf(o.digits)
    \/ (NumberOf(n.digits) = NumberOf(o.digits) /\ (n.ext = "pcap" \/ o.ext = "pcapng"))

RECURSIVE SortById(_)
SortById(S) ==
    IF S = {} THEN <<>>
    ELSE LET m == CHOOSE n \in S : \A o \in S : NameBefore(n, o)
         IN  <<m>> \o SortById(S \ {m})

\* metaByStream.get(id) is keyed by the file
MetaOfFile(scanOk, lastExt, name) == {n \in scanOk : n = name}

\* metaByStream.get(id): the endpoints set by the scan of id that closed last among
\* those that found a TCP packet (the name of the scanned file stands for them)
MetaOf(scanOk, lastExt, name) ==
    LET same == {n \in scanOk : NumberOf(n.digits) = NumberOf(name.digits)}
    IN  IF \E n \in same : n.ext = lastExt THEN {n \in same : n.ext = lastExt} ELSE same

\* the names mapped to { id, file }, sorted by id, and the record of each:
\* endpoints from metaByStream, size and packet count from the file as it is now
RebuiltStreams(d, listing, scanOk, lastExt, probes) ==
    LET names == SortById(listing)
    IN  [k \in 1..Len(names) |->
            [id |-> NumberOf(names[k].digits), file |-> names[k],
             meta |-> MetaOf(scanOk, lastExt, names[k]),
             stats |-> {f \in dirs[d].files : f.name = names[k]},
             sizeBytes |-> getPcapFileStats(probes[names[k]]).sizeBytes,
             packetCount |-> getPcapFileStats(probes[names[k]]).packetCount]]

(* --------------------------- readSplitIndex --------------------------- *)
ReadPaths ==
    {[kind |-> "file", id |-> f] : f \in 0..MaxCaptures}
        \cup {[kind |-> "split", id |-> d] : d \in SplitIds}
        \cup {[kind |-> "dump", id |-> 0]}

NextRead == Cardinality(UsedReads) + 1

\* the guard compares nothing
NeverSameSplitDir(d) == FALSE

\* captureStatus.splitting && path.resolve(captureStatus.splitDir) === path.resolve(dir)
SameSplitDir(d) == captureStatus.splitting /\ captureStatus.splitDir = d

RECURSIVE OldestCandidate(_)
\* the loop takes the split folders least recently modified first
OldestCandidate(mru) ==
    IF mru = <<>> THEN NoDir
    ELSE LET c == mru[1]
         IN  IF dirs[c].index.exists \/ isLikelySplitFolder(c) THEN c
             ELSE OldestCandidate(SubSeq(mru, 2, Len(mru)))

RECURSIVE FirstCandidate(_)
\* the loop over the split folders, most recently modified first: the first one that
\* has an index.json or looks like split output, or NoDir
FirstCandidate(mru) ==
    IF mru = <<>> THEN NoDir
    ELSE LET c == mru[Len(mru)]
         IN  IF dirs[c].index.exists \/ isLikelySplitFolder(c) THEN c
             ELSE FirstCandidate(SubSeq(mru, 1, Len(mru) - 1))

\* the request is answered in its first turn
ReplyNow(r, path, active, kind, d) ==
    /\ reads' = [reads EXCEPT ![r] =
            [UnusedRead EXCEPT !.pc = "done", !.path = path, !.activeAtRequest = active,
                               !.result = IF kind = "manifest" THEN ManifestOf(d, dirs[d].index)
                                          ELSE [NoResult EXCEPT !.kind = kind]]]
    /\ UNCHANGED <<captureStatus, dirs, dirMru, splits>>

\* await buildSplitIndexFromStreamsDir(d): the listing is taken at once, the
\* manifest is written when the scans and lookups have settled
BeginRebuild(r, path, active, d) ==
    /\ reads' = [reads EXCEPT ![r] =
            [UnusedRead EXCEPT !.pc = "rebuild", !.path = path, !.activeAtRequest = active,
                               !.dir = d, !.listing = StreamListing(d),
                               !.afterSplit = (splits[d].pc = "done")]]
    /\ UNCHANGED <<captureStatus, dirs, dirMru, splits>>

\* await splitCaptureByTcpStream(file, dumpDir, snapLen) from a request
BeginImport(r, path, active, file, rawSnap, callerKind) ==
    /\ CanSplit
    /\ reads' = [reads EXCEPT ![r] =
            [UnusedRead EXCEPT !.pc = "split", !.path = path, !.activeAtRequest = active]]
    /\ BeginSplit(captureStatus, file, rawSnap, [kind |-> callerKind, id |-> r])

\* the folder branches that follow the in-progress guard
ReadFolder(r, path, active, d) ==
    IF d # NoDir /\ isLikelySplitFolder(d) THEN BeginRebuild(r, path, active, d)
    ELSE LET c == IF d = NoDir THEN FirstCandidate(dirMru) ELSE NoDir
         IN  IF c # NoDir /\ dirs[c].index.exists THEN ReplyNow(r, path, active, "manifest", c)
             ELSE IF c # NoDir THEN BeginRebuild(r, path, active, c)
             ELSE IF d = NoDir /\ capMru # <<>>
             THEN BeginImport(r, path, active, capMru[Len(capMru)], Undef, "readDir")
             ELSE ReplyNow(r, path, active, "errNotFound", NoDir)

\* ipcMain.handle('tcpwatch:readSplitIndex'), up to its first await
ReadSplitIndex(path, rawSnap) ==
    LET r == NextRead
        d == IF path.kind = "split" THEN path.id ELSE NoDir
        active == path.kind = "split" /\ path.id \in RunningSplits
    IN  /\ r <= MaxReads
        /\ IF (path.kind = "file" /\ path.id \notin capFiles)
                \/ (path.kind = "split" /\ ~dirs[path.id].made)
           THEN ReplyNow(r, path, active, "errPathNotFound", NoDir)
           ELSE IF path.kind = "file"
           THEN BeginImport(r, path, active, path.id, rawSnap, "readFile")
           ELSE IF d # NoDir /\ dirs[d].index.exists
           THEN ReplyNow(r, path, active, "manifest", d)
           ELSE IF d # NoDir /\ SameSplitDir(d)
           THEN ReplyNow(r, path, active, "errInProgress", NoDir)
           ELSE ReadFolder(r, path, active, d)
        /\ UNCHANGED <<captureChild, procs, startReply, capFiles, capMru>>

\* the extensions a stream file can have: which of two scans of one id closes last
StreamExts == {"pcap", "pcapng"}

\* the probes of getPcapFileStats succeed for every listed file
GoodProbes(listing) == [n \in listing |-> GoodProbe]

\* buildSplitIndexFromStreamsDir after its listing: the per-file scans close
\* (scanOk: those that found a TCP packet), the lookups settle, index.json is
\* written and the request returns it
RebuildDone(r, scanOk, lastExt, probes) ==
    /\ reads[r].pc = "rebuild"
    /\ scanOk \subseteq reads[r].listing
    /\ DOMAIN probes = reads[r].listing
    /\ LET d == reads[r].dir
           index == [exists |-> TRUE, captureFile |-> ImportedMark,
                     streams |-> RebuiltStreams(d, reads[r].listing, scanOk, lastExt, probes)]
       IN  IF \E n \in reads[r].listing : ProbeRaises(probes[n])
           THEN /\ reads' = [reads EXCEPT ![r].pc = "done", ![r].scanOk = scanOk,
                                          ![r].probes = probes,
                                          ![r].result = [NoResult EXCEPT !.kind = "errRebuild"]]
                /\ UNCHANGED <<dirs, dirMru>>
           ELSE /\ dirs' = [dirs EXCEPT ![d].index = index]
                /\ dirMru' = IF dirs[d].index.exists THEN dirMru ELSE Touch(dirMru, d)
                /\ reads' = [reads EXCEPT ![r].pc = "done", ![r].scanOk = scanOk,
                                           ![r].probes = probes,
                                           ![r].result = ManifestOf(d, index)]
    /\ UNCHANGED <<captureChild, captureStatus, procs, startReply, capFiles, capMru, splits>>

\* buildSplitIndexFromStreamsDir(d) called on a folder as it is
buildSplitIndexFromStreamsDir(d) ==
    LET r == NextRead
        path == [kind |-> "split", id |-> d]
    IN  /\ r <= MaxReads
        /\ dirs[d].made
        /\ IF StreamListing(d) = {}
           THEN ReplyNow(r, path, FALSE, "errNoStreamFiles", NoDir)
           ELSE BeginRebuild(r, path, FALSE, d)
        /\ UNCHANGED <<captureChild, procs, startReply, capFiles, capMru>>

(* --------------------- resolveHostnamesForStreamMeta ------------------ *)
\* texts are sequences of characters: addresses and host names
NoIp == <<>>
Addrs == {<<"a">>, <<"b">>, <<"c">>}

RECURSIVE TrimStart(_)
TrimStart(t) == IF t # <<>> /\ t[1] = " " THEN TrimStart(Tail(t)) ELSE t

RECURSIVE TrimEnd(_)
TrimEnd(t) == IF t # <<>> /\ t[Len(t)] = " " THEN TrimEnd(SubSeq(t, 1, Len(t) - 1)) ELSE t

\* String.prototype.trim
Trim(t) == TrimEnd(TrimStart(t))

\* Number.isFinite(timeoutEnv) ? Math.max(200, Math.min(10000, Math.trunc(timeoutEnv))) : 2000
rdnsTimeoutMs(env) ==
    IF env.kind = "num" THEN Max2(MinTimeoutMs, Min2(MaxTimeoutMs, env.n)) ELSE DefaultTimeoutMs

\* Number.isFinite(concEnv) ? Math.max(1, Math.min(32, Math.trunc(concEnv))) : 8
rdnsConcurrency(env) ==
    IF env.kind = "num" THEN Max2(MinConcurrency, Min2(MaxConcurrency, env.n))
    ELSE DefaultConcurrency

\* ipSet.add(ip) for an endpoint that has an address
AddIp(ips, ip) == IF ip = NoIp \/ ip \in Range(ips) THEN ips ELSE Append(ips, ip)

RECURSIVE IpsOf(_)
\* Array.from(ipSet): the addresses of the endpoints in insertion order, each once
IpsOf(meta) ==
    IF meta = <<>> THEN <<>>
    ELSE LET m == meta[Len(meta)]
         IN  AddIp(AddIp(IpsOf(SubSeq(meta, 1, Len(meta) - 1)), m.src), m.dst)

\* one worker per item, whatever the limit
WorkerPerItem(limit, n) == Max2(1, n)

\* Array.from({ length: Math.max(1, limit) }, ...)
WorkerCount(limit, n) == Max2(1, limit)

NewWorker == [state |-> "new", idx |-> 0, age |-> 0, spent |-> 0]

\* one turn of the worker loop: idx = nextIndex; nextIndex++; return when the items
\* are used up, else fn(items[idx]) runs up to its await of dnsReverse(ip)
TakeNext(rd, w) ==
    LET idx == rd.nextIndex
    IN  IF idx >= Len(rd.ips)
        THEN [rd EXCEPT !.nextIndex = idx + 1,
                        !.workers[w] = [state |-> "returned", idx |-> idx, age |-> 0, spent |-> 0]]
        ELSE [rd EXCEPT !.nextIndex = idx + 1,
                        !.workers[w] = [state |-> "ptr", idx |-> idx, age |-> 0, spent |-> 0],
                        !.calls[rd.ips[idx + 1]] = @ + 1]

RECURSIVE StartWorkers(_, _)
\* the workers are created one after the other; each runs up to its first await
StartWorkers(rd, w) ==
    IF w > Len(rd.workers) THEN rd ELSE StartWorkers(TakeNext(rd, w), w + 1)

InFlight(rd) == {w \in DOMAIN rd.workers : rd.workers[w].state \in {"ptr", "svc"}}

\* await Promise.all(workers), the merge of the cache into the endpoints, return
Returns(rd) ==
    IF \A w \in DOMAIN rd.workers : rd.workers[w].state = "returned"
    THEN [rd EXCEPT !.pc = "returned"] ELSE rd

\* the switch is not looked at
SwitchIgnored(enableRdns) == FALSE

\* if (!enableRdns) return
SwitchOff(enableRdns) == ~enableRdns

\* the call up to its first await
resolveHostnamesForStreamMeta(owner, enableRdns, timeoutEnv, concEnv, meta) ==
    IF SwitchOff(enableRdns)
    THEN [IdleResolver EXCEPT !.pc = "returned", !.owner = owner, !.enabled = enableRdns,
                              !.meta = meta]
    ELSE LET ips == IpsOf(meta)
             limit == rdnsConcurrency(concEnv)
         IN  Returns(StartWorkers(
                [pc |-> "running", owner |-> owner, enabled |-> enableRdns, limit |-> limit,
                 timeoutMs |-> rdnsTimeoutMs(timeoutEnv), ips |-> ips, meta |-> meta,
                 nextIndex |-> 0,
                 workers |-> [w \in 1..WorkerCount(limit, Len(ips)) |-> NewWorker],
                 calls |-> [ip \in Range(ips) |-> 0], cache |-> <<>>, now |-> 0], 1))

\* cache.set(ip, names)
cacheSet(cache, ip, names) ==
    [x \in DOMAIN cache \cup {ip} |-> IF x = ip THEN names ELSE cache[x]]

\* m.src.hostnames after the merge: the cached names, or none
HostnamesOf(rd, ip) == IF ip \in DOMAIN rd.cache THEN rd.cache[ip] ELSE <<>>

\* what dnsReverse(ip) settles with: names, an empty list, an error; and the
\* rejection of withTimeout when the timer fires first
ReverseOutcomes ==
    {[kind |-> "names", value |-> << <<"p">> >>], [kind |-> "names", value |-> <<>>],
     [kind |-> "error", value |-> <<>>]}
TimedOut == [kind |-> "timeout", value |-> <<>>]

\* what dnsLookupService(ip, 0) settles with: a host name, the address itself,
\* blanks, nothing, an error
ServiceOutcomes(ip) ==
    {[kind |-> "host", value |-> h] :
        h \in {<<"h">>, <<" ", "h", " ">>, ip, <<" ">> \o ip, <<>>, <<" ">>}}
        \cup {[kind |-> "error", value |-> <<>>]}

\* dnsLookupService(ip, 0) returns a promise, or throws at once on an address it
\* does not take for one
ServiceCalls == {"pending", "throws"}

\* withTimeout(dnsReverse(ip), ...).catch(() => [])
catchReverse(out) == IF out.kind \in {"error", "timeout"} THEN <<>> ELSE out.value

\* withTimeout(dnsLookupService(ip, 0), ...).catch(() => null): host is '' then
catchService(out) == IF out.kind \in {"error", "timeout"} THEN <<>> ELSE out.value

\* any name that is not blank is accepted
AcceptsAnyName(host, ip) == Trim(host) # <<>>

\* if (host && host.trim() && host.trim() !== ip)
AcceptService(host, ip) == host # <<>> /\ Trim(host) # <<>> /\ Trim(host) # ip

\* the body of fn has no try around it
bestEffortMissing(call) == FALSE

\* try { ... } catch { /* best effort */ } around the body of fn
bestEffort(call) == TRUE

\* fn(ip) after its first await: names are cached and the worker takes its next
\* item, or dnsLookupService is called
AfterReverse(rd, w, out, call) ==
    LET ip == rd.ips[rd.workers[w].idx + 1]
        names == catchReverse(out)
    IN  IF names # <<>>
        THEN Returns(TakeNext([rd EXCEPT !.cache = cacheSet(@, ip, names)], w))
        ELSE IF call = "throws"
        THEN IF bestEffort(call) THEN Returns(TakeNext(rd, w)) ELSE [rd EXCEPT !.pc = "threw"]
        ELSE [rd EXCEPT !.workers[w].state = "svc", !.workers[w].age = 0]

\* fn(ip) after its second await; then the worker takes its next item
AfterService(rd, w, out) ==
    LET ip == rd.ips[rd.workers[w].idx + 1]
        host == catchService(out)
    IN  Returns(TakeNext(
            IF AcceptService(host, ip)
            THEN [rd EXCEPT !.cache = cacheSet(@, ip, <<Trim(host)>>)] ELSE rd, w))

\* the caller of a resolver call that rejects: the split rejects, the
\* reconstruction rejects and with it the request
ResolverThrows(owner) ==
    IF owner.kind = "split"
    THEN /\ RejectSplit(owner.id, splits[owner.id], "resolve")
         /\ UNCHANGED <<captureChild, procs, startReply, capFiles, capMru, dirs, dirMru>>
    ELSE /\ reads' = [reads EXCEPT ![owner.id].pc = "done",
                                   ![owner.id].result = [NoResult EXCEPT !.kind = "errRebuild"]]
         /\ UNCHANGED <<captureChild, captureStatus, procs, startReply, capFiles, capMru,
                        dirs, dirMru, splits>>

\* one turn of the event loop inside the resolver, and the caller's continuation
\* when the call returns in that turn
ResolverGoes(rd) ==
    /\ rdns' = rd
    /\ UNCHANGED <<child, childProcs, scan, processEnv>>
    /\ IF rd.pc = "returned"
       THEN IF rd.owner.kind = "split" THEN ResolveDone(rd.owner.id)
            ELSE RebuildDone(rd.owner.id, reads[rd.owner.id].listing, "pcapng",
                             GoodProbes(reads[rd.owner.id].listing))
       ELSE IF rd.pc = "threw" THEN ResolverThrows(rd.owner)
       ELSE UNCHANGED <<captureChild, captureStatus, procs, startReply, capFiles, capMru,
                        dirs, dirMru, splits, reads>>

\* dnsReverse(ip) of worker w settles before the timer
ReverseDone(w, out, call) ==
    /\ rdns.pc = "running"
    /\ rdns.workers[w].state = "ptr" /\ rdns.workers[w].age = 0
    /\ ResolverGoes(AfterReverse(rdns, w, out, call))

\* the timer of withTimeout(dnsReverse(ip), rdnsTimeoutMs) fires
ReverseTimeout(w, call) ==
    /\ rdns.pc = "running"
    /\ rdns.workers[w].state = "ptr" /\ rdns.workers[w].age = 1
    /\ ResolverGoes(AfterReverse(rdns, w, TimedOut, call))

\* dnsLookupService(ip, 0) of worker w settles before the timer
ServiceDone(w, out) ==
    /\ rdns.pc = "running"
    /\ rdns.workers[w].state = "svc" /\ rdns.workers[w].age = 0
    /\ out \in ServiceOutcomes(rdns.ips[rdns.workers[w].idx + 1])
    /\ ResolverGoes(AfterService(rdns, w, out))

\* the timer of withTimeout(dnsLookupService(ip, 0), rdnsTimeoutMs) fires
ServiceTimeout(w) ==
    /\ rdns.pc = "running"
    /\ rdns.workers[w].state = "svc" /\ rdns.workers[w].age = 1
    /\ ResolverGoes(AfterService(rdns, w, TimedOut))

\* rdnsTimeoutMs pass with every pending lookup still pending: their timers are due
Tick ==
    /\ rdns.pc = "running"
    /\ InFlight(rdns) # {}
    /\ \A w \in InFlight(rdns) : rdns.workers[w].age = 0
    /\ rdns' = [rdns EXCEPT
            !.now = @ + rdns.timeoutMs,
            !.workers = [w \in DOMAIN @ |->
                IF w \in InFlight(rdns)
                THEN [@[w] EXCEPT !.age = 1, !.spent = @ + rdns.timeoutMs] ELSE @[w]]]
    /\ UNCHANGED <<captureChild, captureStatus, procs, startReply, capFiles, capMru,
                   dirs, dirMru, splits, reads, child, childProcs, scan, processEnv>>

\* close of the metadata scan of split s, with the endpoints it found, and the
\* call of the resolver
SplitResolves(s, enableRdns, timeoutEnv, concEnv, meta) ==
    /\ rdns.pc = "idle"
    /\ LET rd == resolveHostnamesForStreamMeta([kind |-> "split", id |-> s],
                        enableRdns, timeoutEnv, concEnv, meta)
           endpoints == {splits[s].streamIds[k] :
                            k \in 1..Min2(Len(meta), Len(splits[s].streamIds))}
       IN  /\ rdns' = rd
           /\ ScanClose(s, TRUE, endpoints, rd.pc # "returned")
           /\ UNCHANGED <<child, childProcs, scan, processEnv>>

\* close of the per-file scans of reconstruction r, with the endpoints they found,
\* and the call of the resolver
RebuildResolves(r, enableRdns, timeoutEnv, concEnv, meta) ==
    /\ rdns.pc = "idle"
    /\ reads[r].pc = "rebuild"
    /\ ResolverGoes(resolveHostnamesForStreamMeta([kind |-> "rebuild", id |-> r],
                        enableRdns, timeoutEnv, concEnv, meta))

(* ------------------ stream endpoints and descriptions ----------------- *)
\* description === undefined, and the empty string
NoText == <<>>

\* the rows a metadata scan prints: tcp.stream, ip.src, ipv6.src, ip.dst, ipv6.dst
\* (an address or nothing) and the ports, which here read alike in one row
ScanRows ==
    [id : 0..1, ip4src : {NoIp, <<"4">>}, ip6src : {NoIp, <<"6">>},
     ip4dst : {NoIp, <<"4">>}, ip6dst : {NoIp, <<"6">>}, port : {NotANumber, Num(80)}]

ScanOutputs == UNION {[1..n -> ScanRows] : n \in 0..MaxScanRows}

\* (ip4 || ip6 || '')
FirstPresent(ip4, ip6) == IF ip4 # NoIp THEN ip4 ELSE ip6

\* m.src === undefined
NoEndpoint == [ip |-> NoIp, port |-> Undef, hostnames |-> <<>>]

\* if (srcIp) m.src = { ip: srcIp, port: Number.isFinite(srcPort) ? srcPort : undefined }
EndpointAt(ip, port) ==
    IF Trim(ip) = NoIp THEN NoEndpoint
    ELSE [ip |-> Trim(ip), port |-> IF port.kind = "num" THEN port ELSE Undef, hostnames |-> <<>>]

\* the StreamMeta made from one row
StreamMetaOf(row) ==
    [src |-> EndpointAt(FirstPresent(row.ip4src, row.ip6src), row.port),
     dst |-> EndpointAt(FirstPresent(row.ip4dst, row.ip6dst), row.port),
     description |-> NoText]

\* every row of a stream replaces what the map holds for it
LastSeenWins(meta, id, m) == cacheSet(meta, id, m)

\* loadStreamEndpoints: if (meta.has(id)) continue; ...; meta.set(id, m)
FirstSeenWins(meta, id, m) == IF id \in DOMAIN meta THEN meta ELSE cacheSet(meta, id, m)

\* function pickBestHostname: (names ?? []).find((s) => s && s.trim()), trimmed
pickBestHostname(names) ==
    LET good == {k \in 1..Len(names) : Trim(names[k]) # NoText}
    IN  IF good = {} THEN NoText ELSE Trim(names[SetMin(good)])

DigitChars == <<"0", "1", "2", "3", "4", "5", "6", "7", "8", "9">>

\* `:${ep.port}`
PortText(n) == <<":">> \o [k \in 1..Len(DigitsOf(n)) |-> DigitChars[DigitsOf(n)[k] + 1]]

\* function formatEndpoint
formatEndpoint(ep) ==
    IF ep.ip = NoIp THEN NoText
    ELSE LET host == pickBestHostname(ep.hostnames)
             addr == IF host # NoText /\ host # ep.ip
                     THEN host \o <<" ", "(">> \o ep.ip \o <<")">> ELSE ep.ip
             port == IF ep.port.kind = "num" THEN PortText(ep.port.n) ELSE NoText
         IN  addr \o port

\* left && right ? `${left} → ${right}` : undefined
describe(src, dst) ==
    LET left == formatEndpoint(src)
        right == formatEndpoint(dst)
    IN  IF left # NoText /\ right # NoText THEN left \o <<" ", "-", ">", " ">> \o right ELSE NoText

\* if (m.src?.ip && cache.has(m.src.ip)) m.src.hostnames = cache.get(m.src.ip), and dst
WithHostnames(m, cache) ==
    [m EXCEPT !.src.hostnames = IF m.src.ip # NoIp /\ m.src.ip \in DOMAIN cache
                                THEN cache[m.src.ip] ELSE @,
              !.dst.hostnames = IF m.dst.ip # NoIp /\ m.dst.ip \in DOMAIN cache
                                THEN cache[m.dst.ip] ELSE @]

\* the description is rendered from the addresses alone
DescribedWithoutHostnames(m) ==
    [m EXCEPT !.description = describe([m.src EXCEPT !.hostnames = <<>>],
                                       [m.dst EXCEPT !.hostnames = <<>>])]

\* the description of a StreamMeta whose hostnames have been merged
Described(m) == [m EXCEPT !.description = describe(m.src, m.dst)]

\* the name lists the resolver can have cached for an address: one name, a blank
\* entry before the name, a name that is the address itself
NameLists == {<< <<"h">> >>, << <<" ">>, <<"h", " ">> >>, << <<"4">> >>}
NameCaches == UNION {[ips -> NameLists] : ips \in SUBSET {<<"4">>, <<"6">>}}

\* splitCaptureIntoStreams: the description of a record is rendered again from
\* formatEndpoint(m?.src) and formatEndpoint(m?.dst)
SplitRecordOf(id, meta) ==
    IF id \in DOMAIN meta
    THEN [id |-> id, src |-> meta[id].src, dst |-> meta[id].dst,
          description |-> describe(meta[id].src, meta[id].dst)]
    ELSE [id |-> id, src |-> NoEndpoint, dst |-> NoEndpoint, description |-> NoText]

\* buildSplitIndexFromStreamsDir: { id, file, src: m?.src, dst: m?.dst,
\* description: m?.description, ... }
RecordOf(id, meta) ==
    IF id \in DOMAIN meta
    THEN [id |-> id, src |-> meta[id].src, dst |-> meta[id].dst,
          description |-> meta[id].description]
    ELSE [id |-> id, src |-> NoEndpoint, dst |-> NoEndpoint, description |-> NoText]

\* one row of the scan output is parsed: by loadStreamEndpoints in a split, where
\* rows of all streams follow each other, or as the first row of the scan of one
\* stream file in a reconstruction, where metaByStream.set(s.id, m) is unconditional
ScanLine ==
    /\ scan.pc = "scan"
    /\ scan.next <= Len(scan.rows)
    /\ LET row == scan.rows[scan.next]
           m == StreamMetaOf(row)
       IN  scan' = [scan EXCEPT !.next = @ + 1,
                                !.meta = IF scan.mode = "split" THEN FirstSeenWins(@, row.id, m)
                                         ELSE cacheSet(@, row.id, m)]
    /\ UNCHANGED <<captureChild, captureStatus, procs, startReply, capFiles, capMru, dirs, dirMru,
                   splits, reads, rdns, child, childProcs, processEnv>>

\* the resolver returns with its cache merged into the endpoints, and the loop
\* over metaByStream.values() sets the descriptions
Attach(cache) ==
    /\ scan.pc = "scan"
    /\ scan.next > Len(scan.rows)
    /\ scan' = [scan EXCEPT !.pc = "described",
                            !.meta = [id \in DOMAIN @ |-> Described(WithHostnames(@[id], cache))]]
    /\ UNCHANGED <<captureChild, captureStatus, procs, startReply, capFiles, capMru, dirs, dirMru,
                   splits, reads, rdns, child, childProcs, processEnv>>

\* the records of the manifest: in a split one per enumerated stream (here 0 and
\* 1), in a reconstruction one per stream file
BuildRecords ==
    /\ scan.pc = "described"
    /\ scan' = [scan EXCEPT !.pc = "done",
                            !.records = IF scan.mode = "split"
                                        THEN [k \in 1..2 |-> SplitRecordOf(k - 1, scan.meta)]
                                        ELSE [k \in 1..Len(scan.rows) |->
                                                    RecordOf(scan.rows[k].id, scan.meta)]]
    /\ UNCHANGED <<captureChild, captureStatus, procs, startReply, capFiles, capMru, dirs, dirMru,
                   splits, reads, rdns, child, childProcs, processEnv>>

\* a scan of every output of up to MaxScanRows rows, in a split and in a
\* reconstruction
MetaInit ==
    /\ CoreInit
    /\ capFiles = {ImportedFile}
    /\ capMru = <<ImportedFile>>
    /\ dirs = [d \in SplitIds |-> NoFolder]
    /\ dirMru = <<>>
    /\ scan \in {[IdleScan EXCEPT !.pc = "scan", !.mode = mode, !.rows = rows] :
                    mode \in {"split", "rebuild"}, rows \in ScanOutputs}
    /\ processEnv = QuietEnv

MetaNext ==
    \/ ScanLine
    \/ \E cache \in NameCaches : Attach(cache)
    \/ BuildRecords

MetaSpec == MetaInit /\ [][MetaNext]_vars

(* ------------------------ resolver environment ------------------------ *)
\* TCPWATCH_RDNS: not set, '0' or '1'
EnvSwitches == {"unset", "0", "1"}

\* TCPWATCH_RDNS, TCPWATCH_RDNS_TIMEOUT_MS and TCPWATCH_RDNS_CONCURRENCY as the
\* process environment or a .env file can hold them
EnvValues ==
    [rdns : EnvSwitches, timeoutMs : {Undef, Num(500)}, concurrency : {Undef, Num(4)}]

\* what one call of resolveHostnamesForStreamMeta reads from process.env: the
\* switch, and behind it the timeout and the concurrency
SettingsOf(v) ==
    IF SwitchOff(v.rdns # "0") THEN [enableRdns |-> FALSE, timeoutMs |-> 0, concurrency |-> 0]
    ELSE [enableRdns |-> TRUE, timeoutMs |-> rdnsTimeoutMs(v.timeoutMs),
          concurrency |-> rdnsConcurrency(v.concurrency)]

\* dotenv.config: a variable of the file is set unless the process has it already
DotenvConfig(v, file) ==
    [rdns |-> IF v.rdns = "unset" THEN file.rdns ELSE v.rdns,
     timeoutMs |-> IF v.timeoutMs = Undef THEN file.timeoutMs ELSE v.timeoutMs,
     concurrency |-> IF v.concurrency = Undef THEN file.concurrency ELSE v.concurrency]

\* runDnsAnalysisWithClaude or runPacketAnalysisWithClaude is called for the first
\* time: loadRepoEnvOnce loads the .env file into process.env
LoadRepoEnv ==
    /\ ~processEnv.envLoaded
    /\ processEnv' = [processEnv EXCEPT !.envLoaded = TRUE,
                                        !.vars = DotenvConfig(@, processEnv.dotenv)]
    /\ UNCHANGED <<captureChild, captureStatus, procs, startReply, capFiles, capMru, dirs, dirMru,
                   splits, reads, rdns, child, childProcs, scan>>

\* a split or a reconstruction calls the resolver, which reads its settings
ResolverReads ==
    /\ Len(processEnv.used) < MaxResolverCalls
    /\ processEnv' = [processEnv EXCEPT !.used = Append(@, SettingsOf(processEnv.vars))]
    /\ UNCHANGED <<captureChild, captureStatus, procs, startReply, capFiles, capMru, dirs, dirMru,
                   splits, reads, rdns, child, childProcs, scan>>

\* a process started with any environment, next to any .env file (an absent file
\* sets nothing)
EnvInit ==
    /\ CoreInit
    /\ capFiles = {ImportedFile}
    /\ capMru = <<ImportedFile>>
    /\ dirs = [d \in SplitIds |-> NoFolder]
    /\ dirMru = <<>>
    /\ scan = IdleScan
    /\ processEnv \in {[vars |-> v, atStartup |-> v, dotenv |-> f, envLoaded |-> FALSE,
                        used |-> <<>>] : v \in EnvValues, f \in EnvValues}

EnvNext ==
    \/ LoadRepoEnv
    \/ ResolverReads

EnvSpec == EnvInit /\ [][EnvNext]_vars

(* --------------------------- specification ---------------------------- *)
\* the session controller: captures, post-capture splits, imports and reads
\* interleaved, over start requests that pass validation and short enumerations
CtlStartOptions ==
    {o \in StartOptions : o.tsharkFound /\ o.dumpDirExists /\ o.ifaceGiven /\ o.portValid}
CtlRawOutputs == {<<>>, [k \in 1..CtlStreams |-> CtlStreams - k]}
CtlSnapTools == {"ok"}

Next ==
    \/ \E opts \in CtlStartOptions :
            /\ StartCapture(opts)
            /\ UNCHANGED <<rdns, child, childProcs, scan, processEnv>>
    \/ (/\ StopCapture
        /\ UNCHANGED <<rdns, child, childProcs, scan, processEnv>>)
    \/ \E p \in Procs :
            /\ CaptureWrites(p)
            /\ UNCHANGED <<rdns, child, childProcs, scan, processEnv>>
    \/ \E p \in Procs, code \in ExitCodes :
            /\ CaptureExit(p, code)
            /\ UNCHANGED <<rdns, child, childProcs, scan, processEnv>>
    \/ \E s \in SplitIds, ok \in BOOLEAN, raw \in CtlRawOutputs :
            /\ EnumClose(s, ok, raw)
            /\ UNCHANGED <<rdns, child, childProcs, scan, processEnv>>
    \/ \E s \in SplitIds, lookups \in BOOLEAN :
            /\ ScanClose(s, TRUE, Range(splits[s].streamIds), lookups)
            /\ UNCHANGED <<rdns, child, childProcs, scan, processEnv>>
    \/ \E s \in SplitIds :
            /\ ResolveDone(s)
            /\ UNCHANGED <<rdns, child, childProcs, scan, processEnv>>
    \/ \E s \in SplitIds, ok \in BOOLEAN, tool \in CtlSnapTools :
            /\ ExtractClose(s, ok, tool, GoodProbe)
            /\ UNCHANGED <<rdns, child, childProcs, scan, processEnv>>
    \/ \E path \in ReadPaths, rawSnap \in SnapInputs :
            /\ NextRead <= CtlReads /\ ReadSplitIndex(path, rawSnap)
            /\ UNCHANGED <<rdns, child, childProcs, scan, processEnv>>
    \/ \E r \in ReadIds :
            /\ RebuildDone(r, reads[r].listing, "pcapng", GoodProbes(reads[r].listing))
            /\ UNCHANGED <<rdns, child, childProcs, scan, processEnv>>

Spec == Init /\ [][Next]_vars

\* the session controller under the scheduling the runtime gives it: a capture
\* process that runs exits (tshark -a duration:N, or SIGTERM), and every tool a
\* split has spawned closes; requests of the user come or do not come.
\* A request that may start a split is followed only while a folder name remains
\* for the split of every capture process that is still running.
SlotLeft == NextSplit + Cardinality(LiveProcs) <= MaxSplits

\* the 'exit' event of a running capture process
CaptureTerminates ==
    \E p \in Procs, code \in ExitCodes :
        /\ CaptureExit(p, code)
        /\ UNCHANGED <<rdns, child, childProcs, scan, processEnv>>

\* the 'close' event of the tool that split s waits for, or the return of its resolver
ToolTerminates(s) ==
    \/ \E ok \in BOOLEAN, raw \in CtlRawOutputs :
            /\ EnumClose(s, ok, raw)
            /\ UNCHANGED <<rdns, child, childProcs, scan, processEnv>>
    \/ \E lookups \in BOOLEAN :
            /\ ScanClose(s, TRUE, Range(splits[s].streamIds), lookups)
            /\ UNCHANGED <<rdns, child, childProcs, scan, processEnv>>
    \/ (/\ ResolveDone(s)
        /\ UNCHANGED <<rdns, child, childProcs, scan, processEnv>>)
    \/ \E ok \in BOOLEAN, tool \in CtlSnapTools :
            /\ ExtractClose(s, ok, tool, GoodProbe)
            /\ UNCHANGED <<rdns, child, childProcs, scan, processEnv>>

LiveNext ==
    \/ \E opts \in CtlStartOptions :
            /\ CaptureBusy \/ SlotLeft
            /\ StartCapture(opts)
            /\ UNCHANGED <<rdns, child, childProcs, scan, processEnv>>
    \/ (/\ StopCapture
        /\ UNCHANGED <<rdns, child, childProcs, scan, processEnv>>)
    \/ \E p \in Procs :
            /\ CaptureWrites(p)
            /\ UNCHANGED <<rdns, child, childProcs, scan, processEnv>>
    \/ CaptureTerminates
    \/ \E s \in SplitIds : ToolTerminates(s)
    \/ \E path \in ReadPaths, rawSnap \in SnapInputs :
            /\ NextRead <= CtlReads /\ SlotLeft
            /\ ReadSplitIndex(path, rawSnap)
            /\ UNCHANGED <<rdns, child, childProcs, scan, processEnv>>
    \/ \E r \in ReadIds :
            /\ RebuildDone(r, reads[r].listing, "pcapng", GoodProbes(reads[r].listing))
            /\ UNCHANGED <<rdns, child, childProcs, scan, processEnv>>

LiveSpec ==
    /\ Init
    /\ [][LiveNext]_vars
    /\ WF_vars(CaptureTerminates)
    /\ \A s \in SplitIds : WF_vars(ToolTerminates(s))

\* the start requests as the renderer sends them: whether tshark is installed and
\* the dump folder exists, the interface id as text, the port as a raw value; the
\* snapLen is left out of the request
IfaceTexts == {<<>>, <<" ">>, <<"e", "n">>}
PortInputs ==
    {Undef, Blank, NotANumber} \cup {Num(n) : n \in {0, MinPort, MaxPort, MaxPort + 1}}
StartRequests ==
    [tsharkFound : BOOLEAN, dumpDirExists : BOOLEAN, ifaceId : IfaceTexts, port : PortInputs]

\* the port check is skipped
AnyPort(raw) == TRUE

\* opts.port undefined, null or blank is no port; else parsed = Math.trunc(Number(port))
\* and !Number.isFinite(parsed) || parsed < 1 || parsed > 65535 throws
PortAccepted(raw) ==
    \/ raw.kind \in {"undefined", "null", "blank"}
    \/ raw.kind = "num" /\ raw.n >= MinPort /\ raw.n <= MaxPort

\* the checks of the handler applied to a request
OptionsOf(req) ==
    [tsharkFound |-> req.tsharkFound, dumpDirExists |-> req.dumpDirExists,
     ifaceGiven |-> Trim(req.ifaceId) # <<>>, portValid |-> PortAccepted(req.port),
     snapLen |-> Undef]

\* capture sessions over every start request, valid or not, with their splits
StartNext ==
    \/ \E req \in StartRequests :
            /\ StartCapture(OptionsOf(req))
            /\ UNCHANGED <<rdns, child, childProcs, scan, processEnv>>
    \/ (/\ StopCapture
        /\ UNCHANGED <<rdns, child, childProcs, scan, processEnv>>)
    \/ \E p \in Procs :
            /\ CaptureWrites(p)
            /\ UNCHANGED <<rdns, child, childProcs, scan, processEnv>>
    \/ CaptureTerminates
    \/ \E s \in SplitIds : ToolTerminates(s)

StartSpec == Init /\ [][StartNext]_vars

(* ----------------------- live-connection stream ----------------------- *)
UsedChildren == {k \in Children : childProcs[k].state # "unused"}

\* function stopChild: if (!child) return; child.kill('SIGTERM'); child = null
stopChild(kids, c) ==
    IF c = NoChild THEN kids ELSE [kids EXCEPT ![c].signalled = TRUE]

\* the exit handler clears the pointer whichever process exits
ExitClearsAlways(c, k) == NoChild

\* proc.on('exit'): if (child === proc) child = null
ExitClears(c, k) == IF c = k THEN NoChild ELSE c

\* function startChild: stopChild(); bin = resolveTcpwatchPath(), which throws when
\* no binary is found; spawn; child = proc
startChild(binFound) ==
    LET k == Cardinality(UsedChildren) + 1
        stopped == stopChild(childProcs, child)
    IN  IF ~binFound
        THEN /\ childProcs' = stopped
             /\ child' = NoChild
        ELSE /\ k <= MaxChildren
             /\ childProcs' = [stopped EXCEPT ![k].state = "running"]
             /\ child' = k

\* ipcMain.handle('tcpwatch:start')
StartStream(binFound) ==
    /\ startChild(binFound)
    /\ UNCHANGED <<captureChild, captureStatus, procs, startReply, capFiles, capMru, dirs, dirMru,
                   splits, reads, rdns, scan, processEnv>>

\* ipcMain.handle('tcpwatch:stop'), app.on('window-all-closed')
StopStream ==
    /\ childProcs' = stopChild(childProcs, child)
    /\ child' = NoChild
    /\ UNCHANGED <<captureChild, captureStatus, procs, startReply, capFiles, capMru, dirs, dirMru,
                   splits, reads, rdns, scan, processEnv>>

\* proc.on('exit') of stream process k: after its signal or on its own
ChildExit(k) ==
    /\ childProcs[k].state = "running"
    /\ childProcs' = [childProcs EXCEPT ![k].state = "exited"]
    /\ child' = ExitClears(child, k)
    /\ UNCHANGED <<captureChild, captureStatus, procs, startReply, capFiles, capMru, dirs, dirMru,
                   splits, reads, rdns, scan, processEnv>>

\* start and stop requests and exit events of the stream processes, in any order
StreamNext ==
    \/ \E binFound \in BOOLEAN : StartStream(binFound)
    \/ StopStream
    \/ \E k \in Children : ChildExit(k)

StreamSpec == Init /\ [][StreamNext]_vars

\* one invocation of the splitter, whichever handler starts it, over every
\* enumeration output, every outcome of the extraction and of the truncation tool
SplitterNext ==
    \/ \E opts \in CtlStartOptions :
            /\ UsedSplits = {} /\ StartCapture(opts)
            /\ UNCHANGED <<rdns, child, childProcs, scan, processEnv>>
    \/ \E p \in Procs :
            /\ UsedSplits = {} /\ CaptureWrites(p)
            /\ UNCHANGED <<rdns, child, childProcs, scan, processEnv>>
    \/ \E p \in Procs, code \in ExitCodes :
            /\ UsedSplits = {} /\ CaptureExit(p, code)
            /\ UNCHANGED <<rdns, child, childProcs, scan, processEnv>>
    \/ \E path \in ReadPaths, rawSnap \in SnapInputs :
            /\ NextRead <= CtlReads
            /\ (UsedSplits = {} \/ path.kind # "file")
            /\ ReadSplitIndex(path, rawSnap)
            /\ UNCHANGED <<rdns, child, childProcs, scan, processEnv>>
    \/ \E r \in ReadIds :
            /\ RebuildDone(r, reads[r].listing, "pcapng", GoodProbes(reads[r].listing))
            /\ UNCHANGED <<rdns, child, childProcs, scan, processEnv>>
    \/ \E s \in SplitIds, ok \in BOOLEAN, raw \in RawOutputs :
            /\ EnumClose(s, ok, raw)
            /\ UNCHANGED <<rdns, child, childProcs, scan, processEnv>>
    \/ \E s \in SplitIds, lookups \in BOOLEAN :
            /\ ScanClose(s, TRUE, Range(splits[s].streamIds), lookups)
            /\ UNCHANGED <<rdns, child, childProcs, scan, processEnv>>
    \/ \E s \in SplitIds :
            /\ ResolveDone(s)
            /\ UNCHANGED <<rdns, child, childProcs, scan, processEnv>>
    \/ \E s \in SplitIds, ok \in BOOLEAN, tool \in SnapTools :
            /\ ExtractClose(s, ok, tool, GoodProbe)
            /\ UNCHANGED <<rdns, child, childProcs, scan, processEnv>>

SplitterSpec == Init /\ [][SplitterNext]_vars

(* ------------------- folders left by earlier sessions ----------------- *)
\* entries a tcpwatch-split-* folder can hold when the program starts: stream
\* files of the splitter, a .pcap of the same id, a six-digit name, another file
OldNames ==
    {StreamFileName(0), StreamFileName(7), Name("tcp-stream-", <<0, 0, 0, 0, 7>>, "pcap"),
     Name("tcp-stream-", <<1, 2, 3, 4, 5, 6>>, "pcapng"), Name("notes", <<>>, "txt")}

OldFile(n) == [name |-> n, cap |-> NoFile, id |-> NumberOf(n.digits), trunc |-> FALSE]

\* the manifest an earlier split left: one record per stream file
OldIndex(names) ==
    LET listed == SortById({n \in names : IsStreamFileName(n)})
    IN  [exists |-> TRUE, captureFile |-> ImportedFile,
         streams |-> [k \in 1..Len(listed) |->
                        [id |-> NumberOf(listed[k].digits), file |-> listed[k]]]]

OldFolder(names, hasIndex) ==
    [made |-> TRUE, files |-> {OldFile(n) : n \in names}, tmp |-> {},
     index |-> IF hasIndex THEN OldIndex(names) ELSE NoIndex]

\* reconstruction applied to one folder with any content
RebuildInit ==
    /\ SessionInit
    /\ capFiles = {}
    /\ capMru = <<>>
    /\ \E names \in SUBSET OldNames, hasIndex \in BOOLEAN :
            dirs = [d \in SplitIds |-> IF d = 1 THEN OldFolder(names, hasIndex) ELSE NoFolder]
    /\ dirMru = <<1>>

RebuildNext ==
    \/ \E d \in SplitIds :
            /\ buildSplitIndexFromStreamsDir(d)
            /\ UNCHANGED <<rdns, child, childProcs, scan, processEnv>>
    \/ \E r \in ReadIds, scanOk \in SUBSET OldNames, lastExt \in StreamExts :
            /\ RebuildDone(r, scanOk, lastExt, GoodProbes(reads[r].listing))
            /\ UNCHANGED <<rdns, child, childProcs, scan, processEnv>>

RebuildSpec == RebuildInit /\ [][RebuildNext]_vars

(* ------------------------------ the import path ----------------------- *)
RECURSIVE Pow10(_)
Pow10(n) == IF n = 0 THEN 1 ELSE 10 * Pow10(n - 1)

\* stream ids around the width of the file name
WideStreamIds == {0, 7, Pow10(PadWidth) - 1, Pow10(PadWidth)}
WideRawOutputs ==
    {<<>>} \cup {<<a>> : a \in WideStreamIds}
        \cup {<<a, b>> : a \in {Pow10(PadWidth)}, b \in WideStreamIds}

\* what the split folders of earlier sessions hold in the import specification
ImportContents == {{}, {Name("notes", <<>>, "txt")}, {StreamFileName(0), StreamFileName(7)}}
ImportFolders == {OldFolder(names, hasIndex) : names \in ImportContents, hasIndex \in BOOLEAN}

\* index.json of a split folder is deleted from outside the program
RemoveIndex(d) ==
    /\ dirs[d].index.exists
    /\ dirs' = [dirs EXCEPT ![d].index = NoIndex]
    /\ dirMru' = Touch(dirMru, d)
    /\ UNCHANGED <<captureChild, captureStatus, procs, startReply, capFiles, capMru, splits, reads>>

\* a dump folder with no, one or two split folders of earlier sessions, with or
\* without a capture file
ImportInit ==
    /\ SessionInit
    /\ \E caps \in {<<>>, <<ImportedFile>>} :
            capMru = caps /\ capFiles = Range(caps)
    /\ \E n \in 0..MaxSplits, fs \in [SplitIds -> ImportFolders] :
            dirs = [d \in SplitIds |-> IF d <= n THEN fs[d] ELSE NoFolder]
    /\ dirMru \in {m \in UNION {[1..k -> SplitIds] : k \in 0..MaxSplits} :
                        /\ Range(m) = {d \in SplitIds : dirs[d].made}
                        /\ Len(m) = Cardinality(Range(m))}

ImportNext ==
    \/ \E path \in ReadPaths, rawSnap \in SnapInputs :
            /\ ReadSplitIndex(path, rawSnap)
            /\ UNCHANGED <<rdns, child, childProcs, scan, processEnv>>
    \/ \E r \in ReadIds, lastExt \in StreamExts :
            /\ RebuildDone(r, reads[r].listing, lastExt, GoodProbes(reads[r].listing))
            /\ UNCHANGED <<rdns, child, childProcs, scan, processEnv>>
    \/ \E d \in SplitIds :
            /\ RemoveIndex(d)
            /\ UNCHANGED <<rdns, child, childProcs, scan, processEnv>>
    \/ \E s \in SplitIds, ok \in BOOLEAN, raw \in WideRawOutputs :
            /\ EnumClose(s, ok, raw)
            /\ UNCHANGED <<rdns, child, childProcs, scan, processEnv>>
    \/ \E s \in SplitIds, lookups \in BOOLEAN :
            /\ ScanClose(s, TRUE, Range(splits[s].streamIds), lookups)
            /\ UNCHANGED <<rdns, child, childProcs, scan, processEnv>>
    \/ \E s \in SplitIds :
            /\ ResolveDone(s)
            /\ UNCHANGED <<rdns, child, childProcs, scan, processEnv>>
    \/ \E s \in SplitIds, ok \in BOOLEAN, tool \in CtlSnapTools :
            /\ ExtractClose(s, ok, tool, GoodProbe)
            /\ UNCHANGED <<rdns, child, childProcs, scan, processEnv>>

ImportSpec == ImportInit /\ [][ImportNext]_vars

(* ------------------------------ the resolver -------------------------- *)
\* the endpoints a scan can have found: none, one stream, two streams between the
\* same two hosts, two streams with three addresses of which one has no peer
EndpointInputs ==
    {<<>>,
     <<[src |-> <<"a">>, dst |-> <<"b">>]>>,
     <<[src |-> <<"a">>, dst |-> <<"b">>], [src |-> <<"b">>, dst |-> <<"a">>]>>,
     <<[src |-> <<"a">>, dst |-> <<"b">>], [src |-> <<"c">>, dst |-> NoIp]>>}

\* TCPWATCH_RDNS_TIMEOUT_MS and TCPWATCH_RDNS_CONCURRENCY: unset, below the
\* range, inside it, above it
TimeoutEnvs == {Undef, Num(50), Num(20000)}
ConcurrencyEnvs == {Undef, NotANumber, Num(0), Num(2), Num(100)}

ResolverInit ==
    /\ SessionInit
    /\ capFiles = {ImportedFile}
    /\ capMru = <<ImportedFile>>
    /\ \E old \in BOOLEAN :
            /\ dirs = [d \in SplitIds |->
                        IF old /\ d = 1
                        THEN OldFolder({StreamFileName(0), StreamFileName(7)}, FALSE)
                        ELSE NoFolder]
            /\ dirMru = IF old THEN <<1>> ELSE <<>>

ResolverNext ==
    \/ \E path \in ReadPaths, rawSnap \in SnapInputs :
            /\ NextRead <= CtlReads
            /\ ReadSplitIndex(path, rawSnap)
            /\ UNCHANGED <<rdns, child, childProcs, scan, processEnv>>
    \/ \E s \in SplitIds, ok \in BOOLEAN, raw \in CtlRawOutputs :
            /\ EnumClose(s, ok, raw)
            /\ UNCHANGED <<rdns, child, childProcs, scan, processEnv>>
    \/ \E s \in SplitIds, enableRdns \in BOOLEAN, timeoutEnv \in TimeoutEnvs,
            concEnv \in ConcurrencyEnvs, meta \in EndpointInputs :
            SplitResolves(s, enableRdns, timeoutEnv, concEnv, meta)
    \/ \E r \in ReadIds, enableRdns \in BOOLEAN, timeoutEnv \in TimeoutEnvs,
            concEnv \in ConcurrencyEnvs, meta \in EndpointInputs :
            RebuildResolves(r, enableRdns, timeoutEnv, concEnv, meta)
    \/ \E w \in DOMAIN rdns.workers, out \in ReverseOutcomes, call \in ServiceCalls :
            ReverseDone(w, out, call)
    \/ \E w \in DOMAIN rdns.workers, call \in ServiceCalls : ReverseTimeout(w, call)
    \/ \E w \in DOMAIN rdns.workers, out \in UNION {ServiceOutcomes(ip) : ip \in Addrs} :
            ServiceDone(w, out)
    \/ \E w \in DOMAIN rdns.workers : ServiceTimeout(w)
    \/ Tick
    \/ \E s \in SplitIds, ok \in BOOLEAN, tool \in CtlSnapTools :
            /\ ExtractClose(s, ok, tool, GoodProbe)
            /\ UNCHANGED <<rdns, child, childProcs, scan, processEnv>>

ResolverSpec == ResolverInit /\ [][ResolverNext]_vars

(* ------------------------- records and their enrichment -------------- *)
\* one import and one reconstruction, over every outcome of the metadata scan,
\* of the probes of getPcapFileStats and of the truncation tool
EnrichInit == ResolverInit

EnrichNext ==
    \/ \E path \in ReadPaths, rawSnap \in SnapInputs :
            /\ NextRead <= CtlReads
            /\ ReadSplitIndex(path, rawSnap)
            /\ UNCHANGED <<rdns, child, childProcs, scan, processEnv>>
    \/ \E s \in SplitIds, ok \in BOOLEAN, raw \in CtlRawOutputs :
            /\ EnumClose(s, ok, raw)
            /\ UNCHANGED <<rdns, child, childProcs, scan, processEnv>>
    \/ \E s \in SplitIds, scanOk \in BOOLEAN, lookups \in BOOLEAN :
            \E endpoints \in SUBSET Range(splits[s].streamIds) :
                /\ ScanClose(s, scanOk, endpoints, lookups)
                /\ UNCHANGED <<rdns, child, childProcs, scan, processEnv>>
    \/ \E s \in SplitIds :
            /\ ResolveDone(s)
            /\ UNCHANGED <<rdns, child, childProcs, scan, processEnv>>
    \/ \E s \in SplitIds, ok \in BOOLEAN, tool \in SnapTools, probe \in Probes :
            /\ ExtractClose(s, ok, tool, probe)
            /\ UNCHANGED <<rdns, child, childProcs, scan, processEnv>>
    \/ \E r \in ReadIds :
            \E scanOk \in SUBSET reads[r].listing, probes \in [reads[r].listing -> Probes] :
                /\ RebuildDone(r, scanOk, "pcapng", probes)
                /\ UNCHANGED <<rdns, child, childProcs, scan, processEnv>>

EnrichSpec == EnrichInit /\ [][EnrichNext]_vars

(* ------------------------------ snapLen values ----------------------- *)
\* imports with snapLen values of every kind, over every outcome of the
\* truncation tool
SnapNext ==
    \/ \E path \in ReadPaths, rawSnap \in WideSnapInputs :
            /\ ReadSplitIndex(path, rawSnap)
            /\ UNCHANGED <<rdns, child, childProcs, scan, processEnv>>
    \/ \E r \in ReadIds :
            /\ RebuildDone(r, reads[r].listing, "pcapng", GoodProbes(reads[r].listing))
            /\ UNCHANGED <<rdns, child, childProcs, scan, processEnv>>
    \/ \E s \in SplitIds, ok \in BOOLEAN, raw \in CtlRawOutputs :
            /\ EnumClose(s, ok, raw)
            /\ UNCHANGED <<rdns, child, childProcs, scan, processEnv>>
    \/ \E s \in SplitIds, lookups \in BOOLEAN :
            /\ ScanClose(s, TRUE, Range(splits[s].streamIds), lookups)
            /\ UNCHANGED <<rdns, child, childProcs, scan, processEnv>>
    \/ \E s \in SplitIds :
            /\ ResolveDone(s)
            /\ UNCHANGED <<rdns, child, childProcs, scan, processEnv>>
    \/ \E s \in SplitIds, ok \in BOOLEAN, tool \in SnapTools :
            /\ ExtractClose(s, ok, tool, GoodProbe)
            /\ UNCHANGED <<rdns, child, childProcs, scan, processEnv>>

SnapSpec == Init /\ [][SnapNext]_vars

(* ------------------------------ properties --------------------------- *)
StartCaptureRejected ==
    /\ startReply' = "Capture already running"
    /\ UNCHANGED <<captureChild, captureStatus, procs, capFiles, capMru, dirs, dirMru, splits, reads>>

\* C1: a startCapture request made while a capture process is running answers
\* 'Capture already running', spawns nothing and changes no state; and at most
\* one capture process is alive in every reachable state.
C1_SecondStartRejected ==
    /\ [][\A opts \in StartOptions :
            (captureChild # NoProc /\ StartCapture(opts)) => StartCaptureRejected]_vars
    /\ [](Cardinality(LiveProcs) <= 1 /\ (LiveProcs # {} => LiveProcs = {captureChild}))

\* a request has just been rejected while the capture it collided with still runs
C1_Witness ==
    /\ captureChild # NoProc
    /\ procs[captureChild].state = "running"
    /\ startReply = "Capture already running"

\* the post-capture split of some capture is running and no capture process is tracked
PostCaptureSplitting ==
    /\ captureChild = NoProc
    /\ \E s \in RunningSplits : splits[s].caller.kind = "capture"

\* C2: a startCapture request made while the session is Splitting is rejected
\* like one made while Capturing.
C2_StartRejectedWhileSplitting ==
    [][\A opts \in CtlStartOptions :
            (PostCaptureSplitting /\ StartCapture(opts)) => StartCaptureRejected]_vars

\* C3: a readSplitIndex request for exactly the folder of a split that is in
\* progress is answered with the 'still in progress' error, and with nothing else.
C3_ReadDuringSplitFails ==
    \A r \in ReadIds :
        reads[r].activeAtRequest =>
            reads[r].pc = "done" /\ reads[r].result.kind = "errInProgress"

\* the names a manifest lists
ListedFiles(index) == {index.streams[k].file : k \in 1..Len(index.streams)}

\* C4: whenever index.json exists in a split folder it lists exactly the stream
\* files present in that folder.
C4_ManifestComplete ==
    \A d \in SplitIds :
        dirs[d].index.exists => ListedFiles(dirs[d].index) = StreamListing(d)

\* C5: the step that ends a split, by completion or by failure, leaves
\* captureStatus.splitting false.
C5_SplitEndClearsSplitting ==
    [][\A s \in SplitIds :
            (s \in RunningSplits /\ splits'[s].pc \in {"done", "failed"})
                => ~captureStatus'.splitting]_vars

C7_StopOnlySignals ==
    /\ [][StopCapture =>
            IF captureChild = NoProc
            THEN UNCHANGED vars
            ELSE /\ captureChild' = captureChild
                 /\ captureStatus' = captureStatus
                 /\ splits' = splits /\ dirs' = dirs /\ reads' = reads
                 /\ procs'[captureChild].state = "running"
                 /\ procs'[captureChild].signalled]_vars
    /\ [][(captureChild # NoProc /\ captureChild' # captureChild)
            => \E code \in ExitCodes : CaptureExit(captureChild, code)]_vars

\* a capture that was asked to stop is still tracked and still Capturing
C7_Witness ==
    /\ captureChild # NoProc
    /\ procs[captureChild].signalled
    /\ procs[captureChild].state = "running"
    /\ captureStatus.running

\* the progress events a split has to have emitted after its first n streams
ExpectedProgress(sp, n) ==
    [k \in 1..n |-> [current |-> k, total |-> Len(sp.streamIds),
                     streamId |-> sp.streamIds[k], file |-> StreamFileName(sp.streamIds[k])]]

StrictlyAscending(seq) == \A j, k \in 1..Len(seq) : j < k => seq[j] < seq[k]

\* C8: the stream ids are the enumerated ids in strictly ascending order; the
\* progress events are, in order, (k, N, k-th id, its file) for the streams done
\* so far, each with its stream file in the folder; a completed split has emitted N.
C8_ProgressOrdered ==
    \A s \in SplitIds :
        LET sp == splits[s] IN
        sp.pc \in {"scan", "resolve", "extract", "done", "failed"} =>
            /\ StrictlyAscending(sp.streamIds)
            /\ Range(sp.streamIds) = sp.enumerated
            /\ Len(sp.progress) <= Len(sp.streamIds)
            /\ sp.progress = ExpectedProgress(sp, Len(sp.progress))
            /\ \A k \in 1..Len(sp.progress) :
                    \E f \in dirs[s].files :
                        f.name = sp.progress[k].file /\ f.id = sp.progress[k].streamId
            /\ (sp.pc = "done" => Len(sp.progress) = Len(sp.streamIds))

\* a split of three streams has completed
C8_Witness ==
    \E s \in SplitIds : splits[s].pc = "done" /\ Len(splits[s].progress) = 3

C10_TruncationFallback ==
    /\ [](\A s \in SplitIds :
            LET sp == splits[s] IN
            \A k \in 1..Len(sp.snapRes) :
                (sp.snapLen > 0 /\ ~sp.snapRes[k].applied) =>
                    /\ [name |-> StreamFileName(sp.streamIds[k]), cap |-> sp.captureFile,
                        id |-> sp.streamIds[k], trunc |-> FALSE] \in dirs[s].files
                    /\ \E w \in 1..Len(sp.warnings) :
                            sp.warnings[w] = StreamFileName(sp.streamIds[k])
                    /\ Len(sp.records) >= k /\ sp.records[k].id = sp.streamIds[k]
                    /\ Len(sp.progress) >= k /\ sp.progress[k].streamId = sp.streamIds[k])
    /\ [][\A s \in SplitIds :
            (splits[s].pc = "extract" /\ splits'[s].pc = "failed")
                => splits'[s].error = "extract"]_vars

\* a split with snapLen > 0 completed although the truncation of a stream failed
C10_Witness ==
    \E s \in SplitIds :
        /\ splits[s].pc = "done" /\ splits[s].snapLen > 0
        /\ \E k \in 1..Len(splits[s].snapRes) : ~splits[s].snapRes[k].applied

\* the stream files of a listing, as a set of ids and as a set of names
ManifestNames(streams) == {streams[k].file : k \in 1..Len(streams)}

\* a request that ran the reconstruction of folder d to its end
Rebuilt(r) == reads[r].pc = "done" /\ reads[r].dir # NoDir /\ reads[r].result.kind = "manifest"

\* C11: a finished reconstruction has written a manifest marked '(imported)' whose
\* records are, in ascending id order, exactly one per listed file that has the
\* stream file name, each with the id its name spells; a file whose scan found
\* nothing has its record, without endpoints.
C11_RebuildRecords ==
    \A r \in ReadIds :
        Rebuilt(r) =>
            LET st == reads[r].result.streams
                d == reads[r].dir
            IN  /\ reads[r].result.captureFile = ImportedMark
                /\ dirs[d].index.exists
                /\ ManifestNames(st) = {n \in DirEntries(d) \ {IndexName} : IsStreamFileName(n)}
                /\ Len(st) = Cardinality(ManifestNames(st))
                /\ \A k \in 1..Len(st) : st[k].id = NumberOf(st[k].file.digits)
                /\ \A j, k \in 1..Len(st) : j < k => st[j].id <= st[k].id
                /\ \A k \in 1..Len(st) : st[k].file \notin reads[r].scanOk => st[k].meta = {}

\* C13: two finished reconstructions of the same folder, over the same stream
\* files with the same scan results, have produced the same records.
C13_RebuildIdempotent ==
    \A r1, r2 \in ReadIds :
        (/\ Rebuilt(r1) /\ Rebuilt(r2)
         /\ reads[r1].dir = reads[r2].dir
         /\ reads[r1].listing = reads[r2].listing
         /\ reads[r1].scanOk = reads[r2].scanOk)
            => reads[r1].result.streams = reads[r2].result.streams

\* the (stream id, file name) pairs of a list of records
IdFilePairs(streams) == {<<streams[k].id, streams[k].file>> : k \in 1..Len(streams)}

\* C12: a reconstruction of the folder of a completed split, started after its
\* index.json was deleted, has written a manifest with the same (stream id, file
\* name) pairs as the manifest the split wrote.
C12_RoundTrip ==
    \A r \in ReadIds :
        (Rebuilt(r) /\ reads[r].afterSplit) =>
            IdFilePairs(reads[r].result.streams) = IdFilePairs(splits[reads[r].dir].records)

\* request r is served in this step
Served(r) == reads[r].pc = "unused" /\ reads'[r].pc # "unused"

\* the step answers request r at once with an error and starts nothing
AnswersError(r, kind) ==
    /\ reads'[r].pc = "done" /\ reads'[r].result.kind = kind
    /\ splits' = splits /\ dirs' = dirs

\* the step answers request r at once with the manifest found in folder d
AnswersManifest(r, d) ==
    /\ reads'[r].pc = "done"
    /\ reads'[r].result = ManifestOf(d, dirs[d].index)
    /\ splits' = splits /\ dirs' = dirs

\* the step starts the reconstruction of folder d for request r
StartsRebuild(r, d) ==
    /\ reads'[r].pc = "rebuild" /\ reads'[r].dir = d
    /\ splits' = splits /\ dirs' = dirs

\* the step starts a split of capture file f for request r
StartsImport(r, f, callerKind) ==
    /\ reads'[r].pc = "split"
    /\ splits[NextSplit].pc = "unused"
    /\ splits'[NextSplit].pc = "enum"
    /\ splits'[NextSplit].captureFile = f
    /\ splits'[NextSplit].caller = [kind |-> callerKind, id |-> r]

HasManifest(d) == dirs[d].index.exists
HasStreamFiles(d) == \E n \in DirEntries(d) : IsStreamFileName(n)
Usable(d) == dirs[d].made /\ (HasManifest(d) \/ HasStreamFiles(d))
ModifiedAfter(c, d) ==
    \E j, k \in 1..Len(dirMru) : dirMru[j] = d /\ dirMru[k] = c /\ j < k

ExtractionsClosed(sp) == Len(sp.records) + (IF sp.error = "extract" THEN 1 ELSE 0)

\* C15: a split has at most one extraction process running, and has one exactly
\* while it waits for an extraction to close; every extraction but the latest has
\* closed, has its stream file under the final name and has had its progress
\* event emitted before the latest was started.
C15_OneExtractionAtATime ==
    \A s \in SplitIds :
        LET sp == splits[s]
            running == sp.extractStarted - ExtractionsClosed(sp)
        IN  /\ running \in {0, 1}
            /\ (running = 1) = (sp.pc = "extract")
            /\ sp.extractStarted > 0 =>
                    /\ Len(sp.progress) >= sp.extractStarted - 1
                    /\ \A k \in 1..(sp.extractStarted - 1) :
                            /\ sp.progress[k].streamId = sp.streamIds[k]
                            /\ \E f \in dirs[s].files : f.name = StreamFileName(sp.streamIds[k])
                            /\ TmpName(StreamFileName(sp.streamIds[k])) \notin dirs[s].tmp

\* the extraction of the third stream is running after two have closed
C15_Witness ==
    \E s \in SplitIds :
        /\ splits[s].pc = "extract" /\ splits[s].extractStarted = 3
        /\ Len(splits[s].progress) = 2

\* C16: a split runs the metadata scan once, started when the enumeration has
\* closed, and calls the resolver once, when the scan has closed; no extraction
\* has started while the scan or the lookups are pending, and neither count grows
\* during or after the extraction loop.
C16_ScanAndResolveOnce ==
    \A s \in SplitIds :
        LET sp == splits[s] IN
        /\ sp.scans <= 1 /\ sp.resolves <= 1
        /\ sp.pc \in {"unused", "enum"} => sp.scans = 0 /\ sp.resolves = 0
        /\ sp.pc = "scan" => sp.scans = 1 /\ sp.resolves = 0
        /\ sp.pc \in {"enum", "scan", "resolve"} => sp.extractStarted = 0
        /\ sp.pc \in {"resolve", "extract", "done"} => sp.scans = 1 /\ sp.resolves = 1
        /\ sp.extractStarted > 0 => sp.scans = 1 /\ sp.resolves = 1

\* a split of three streams has completed after one scan and one resolver call
C16_Witness ==
    \E s \in SplitIds :
        /\ splits[s].pc = "done" /\ splits[s].extractStarted = 3
        /\ splits[s].scans = 1 /\ splits[s].resolves = 1

(* ------------------------------ the resolver's lookups ---------------- *)
\* the addresses of the endpoints a scan found
EndpointAddrs(meta) ==
    ({meta[i].src : i \in DOMAIN meta} \cup {meta[i].dst : i \in DOMAIN meta}) \ {NoIp}

\* the addresses whose resolution has begun and has not ended
Resolving(rd) == {rd.ips[rd.workers[w].idx + 1] : w \in InFlight(rd)}

\* C17: whatever endpoints the scan found and in whatever order the lookups
\* complete, every distinct address is resolved exactly once (never twice, and
\* once by the time the resolver returns), no more than `concurrency` addresses
\* are being resolved at a time, and the resolver returns only when no address
\* is left unhandled or in flight.
C17_EachAddressOnce ==
    rdns.pc \in {"running", "returned"} /\ rdns.limit > 0 =>
        /\ Range(rdns.ips) = EndpointAddrs(rdns.meta)
        /\ Cardinality(Range(rdns.ips)) = Len(rdns.ips)
        /\ \A ip \in Range(rdns.ips) : rdns.calls[ip] <= 1
        /\ Cardinality(InFlight(rdns)) <= rdns.limit
        /\ Cardinality(Resolving(rdns)) = Cardinality(InFlight(rdns))
        /\ rdns.pc = "returned" =>
                /\ \A ip \in Range(rdns.ips) : rdns.calls[ip] = 1
                /\ InFlight(rdns) = {}

\* three addresses and two workers: the second address was handled before the
\* first, whose lookup is still pending beside that of the third
C17_Witness ==
    /\ rdns.pc = "running" /\ rdns.limit = 2 /\ Len(rdns.ips) = 3
    /\ \E v, w \in InFlight(rdns) : rdns.workers[v].idx = 0 /\ rdns.workers[w].idx = 2

\* Math.ceil(a / b)
CeilDiv(a, b) == (a + b - 1) \div b

\* C18: no address occupies a worker for longer than perIpTimeout, and so the
\* whole set is processed within ceil(addresses / concurrency) timeout periods,
\* also when every lookup outlasts its timeout.
C18_BoundedResolution ==
    rdns.pc \in {"running", "returned"} /\ rdns.limit > 0 =>
        /\ \A w \in DOMAIN rdns.workers : rdns.workers[w].spent <= rdns.timeoutMs
        /\ rdns.now <= CeilDiv(Len(rdns.ips), rdns.limit) * rdns.timeoutMs

\* the address worker w is resolving
WorkerIp(rd, w) == rd.ips[rd.workers[w].idx + 1]

\* worker w awaits the secondary lookup of ip
SecondaryPending(rd, w, ip) ==
    /\ rd.workers[w].state = "svc"
    /\ rd.workers[w].idx < Len(rd.ips)
    /\ WorkerIp(rd, w) = ip

\* the reverse lookup of worker w ends with out, by itself or by its timer
PtrStep(w, out, call) ==
    \/ ReverseDone(w, out, call)
    \/ out = TimedOut /\ ReverseTimeout(w, call)

\* the secondary lookup of worker w ends with out, by itself or by its timer
SvcStep(w, out) ==
    \/ ServiceDone(w, out)
    \/ out = TimedOut /\ ServiceTimeout(w)

\* C19: an address is first put to the reverse lookup. Names from it are
\* accepted as they are and no secondary lookup follows; without names the
\* secondary lookup is attempted, and its answer is accepted exactly when it is a
\* name that is not blank and not the address itself; in every other case the
\* address has no hostnames. Names once accepted stay as they are.
C19_LookupOrder ==
    /\ [](\A w \in InFlight(rdns) : HostnamesOf(rdns, WorkerIp(rdns, w)) = <<>>)
    /\ [][/\ \A w \in InFlight(rdns), out \in ReverseOutcomes \cup {TimedOut},
                call \in ServiceCalls :
                PtrStep(w, out, call) =>
                    LET ip == WorkerIp(rdns, w)
                    IN  IF out.kind = "names" /\ out.value # <<>>
                        THEN /\ HostnamesOf(rdns', ip) = out.value
                             /\ ~SecondaryPending(rdns', w, ip)
                        ELSE /\ HostnamesOf(rdns', ip) = <<>>
                             /\ call = "pending" => SecondaryPending(rdns', w, ip)
          /\ \A w \in InFlight(rdns),
                out \in UNION {ServiceOutcomes(ip) : ip \in Addrs} \cup {TimedOut} :
                SvcStep(w, out) =>
                    LET ip == WorkerIp(rdns, w)
                    IN  IF out.kind = "host" /\ Trim(out.value) # <<>> /\ Trim(out.value) # ip
                        THEN HostnamesOf(rdns', ip) = <<Trim(out.value)>>
                        ELSE HostnamesOf(rdns', ip) = <<>>
          /\ rdns.pc = "running" =>
                \A ip \in DOMAIN rdns.cache : HostnamesOf(rdns', ip) = rdns.cache[ip]]_vars

\* a resolver that has returned: one address named by its reverse lookup, one by
\* the secondary lookup, one left without a name
C19_Witness ==
    /\ rdns.pc = "returned"
    /\ \E x, y \in DOMAIN rdns.cache, z \in Range(rdns.ips) \ DOMAIN rdns.cache :
            /\ rdns.cache[x] = << <<"p">> >>
            /\ rdns.cache[y] = << <<"h">> >>

\* a lookup that ends without an answer: an error, or its timer
Failures == {[kind |-> "error", value |-> <<>>], TimedOut}

\* the caller of the resolver goes on after the call: the split to its loop or its
\* manifest, the reconstruction to its manifest
CallerGoesOn(owner) ==
    IF owner.kind = "split"
    THEN /\ splits'[owner.id].pc \in {"extract", "done"}
         /\ splits'[owner.id].error = "none"
         /\ splits'[owner.id].pc = "done" => dirs'[owner.id].index.exists
    ELSE /\ reads'[owner.id].pc = "done"
         /\ reads'[owner.id].result.kind = "manifest"
         /\ dirs'[reads[owner.id].dir].index.exists

\* C20: whichever lookups end in an error or a timeout, the resolver raises
\* nothing: a failed lookup leaves the resolver running or returned, with no
\* hostnames for an address whose lookups all failed; no split and no
\* reconstruction fails because of the resolver; a running resolver always has a
\* lookup pending whose end or timer lets it go on; and when it returns its
\* caller goes on to its manifest.
C20_BestEffort ==
    /\ [](/\ rdns.pc # "threw"
          /\ \A s \in SplitIds : splits[s].error # "resolve"
          /\ \A r \in ReadIds : reads[r].result.kind # "errRebuild"
          /\ rdns.pc = "running" => InFlight(rdns) # {})
    /\ [][/\ \A w \in InFlight(rdns), out \in Failures, call \in ServiceCalls :
                PtrStep(w, out, call) =>
                    /\ rdns'.pc \in {"running", "returned"}
                    /\ HostnamesOf(rdns', WorkerIp(rdns, w)) = <<>>
          /\ \A w \in InFlight(rdns), out \in Failures :
                SvcStep(w, out) =>
                    /\ rdns'.pc \in {"running", "returned"}
                    /\ HostnamesOf(rdns', WorkerIp(rdns, w)) = <<>>
          /\ rdns.pc # "returned" /\ rdns'.pc = "returned" => CallerGoesOn(rdns'.owner)]_vars

\* a split that wrote its manifest after a resolver call in which both lookups of
\* both addresses ran into their timers
C20_Witness ==
    /\ rdns.pc = "returned" /\ rdns.owner.kind = "split"
    /\ Len(rdns.ips) = 2 /\ DOMAIN rdns.cache = {}
    /\ rdns.now >= 2 * rdns.timeoutMs
    /\ splits[rdns.owner.id].pc = "done"
    /\ dirs[rdns.owner.id].index.exists

\* the lookups begun so far: reverse lookups, and secondary lookups pending
LookupsBegun(rd) ==
    {ip \in DOMAIN rd.calls : rd.calls[ip] > 0} \cup Resolving(rd)

\* C21: with the resolver switched off (TCPWATCH_RDNS=0) the call made by a
\* split or a reconstruction returns at once with no worker created, no reverse
\* lookup and no name-service lookup begun, then or later; no endpoint gets
\* hostnames; and the caller goes on to its manifest.
C21_SwitchOff ==
    /\ [](rdns.pc # "idle" /\ ~rdns.enabled =>
            /\ rdns.pc = "returned"
            /\ rdns.workers = <<>>
            /\ LookupsBegun(rdns) = {}
            /\ \A ip \in EndpointAddrs(rdns.meta) : HostnamesOf(rdns, ip) = <<>>)
    /\ [][rdns.pc = "idle" /\ rdns'.pc # "idle" /\ ~rdns'.enabled =>
            CallerGoesOn(rdns'.owner)]_vars

\* a split that wrote its manifest with the switch off, for a capture whose scan
\* found three addresses
C21_Witness ==
    /\ rdns.pc = "returned" /\ ~rdns.enabled
    /\ Cardinality(EndpointAddrs(rdns.meta)) = 3
    /\ rdns.owner.kind = "split"
    /\ splits[rdns.owner.id].pc = "done"
    /\ dirs[rdns.owner.id].index.exists

\* the probe of the file size, of the packet count, did not give a value
SizeProbeFailed(probe) == probe.stat.kind # "file"
CountProbeFailed(probe) ==
    probe.summary.kind = "throws" \/ probe.summary.status # 0 \/ probe.summary.frames = NoFrames

\* a record carries what the probes gave, and Unknown for a probe that failed
StatsAsProbed(rec, probe) ==
    /\ rec.sizeBytes = (IF SizeProbeFailed(probe) THEN Unknown ELSE probe.stat.size)
    /\ rec.packetCount = (IF CountProbeFailed(probe) THEN Unknown ELSE probe.summary.frames)

\* C22: whatever the file-size probe and the packet-count probe of a stream do,
\* the split does not fail there: the record of the stream is appended with the
\* failed statistic unknown and the other as probed, and the loop goes on to the
\* next stream (or to the manifest after the last); a reconstruction likewise
\* writes its manifest with one record per listed file.
C22_ProbeFailureTolerated ==
    /\ [](\A r \in ReadIds :
            reads[r].pc = "done" /\ reads[r].dir # NoDir =>
                LET st == reads[r].result.streams
                IN  /\ reads[r].result.kind = "manifest"
                    /\ Len(st) = Cardinality(reads[r].listing)
                    /\ \A k \in 1..Len(st) : StatsAsProbed(st[k], reads[r].probes[st[k].file]))
    /\ [][\A s \in SplitIds, tool \in SnapTools, probe \in Probes :
            ExtractClose(s, TRUE, tool, probe) =>
                LET k == Len(splits[s].records) + 1
                    id == splits[s].streamIds[k]
                IN  /\ Len(splits'[s].records) = k
                    /\ splits'[s].records[k].id = id
                    /\ splits'[s].records[k].file = StreamFileName(id)
                    /\ StatsAsProbed(splits'[s].records[k], probe)
                    /\ IF k < Len(splits[s].streamIds)
                       THEN /\ splits'[s].pc = "extract"
                            /\ splits'[s].extractStarted = splits[s].extractStarted + 1
                       ELSE /\ splits'[s].pc = "done"
                            /\ dirs'[s].index.exists
                            /\ dirs'[s].index.streams = splits'[s].records]_vars

\* a split that wrote its manifest: both probes failed for its first stream and
\* gave values for its second
C22_Witness ==
    \E s \in SplitIds :
        /\ splits[s].pc = "done" /\ dirs[s].index.exists
        /\ Len(dirs[s].index.streams) = 2
        /\ dirs[s].index.streams[1].sizeBytes = Unknown
        /\ dirs[s].index.streams[1].packetCount = Unknown
        /\ dirs[s].index.streams[2].sizeBytes # Unknown
        /\ dirs[s].index.streams[2].packetCount # Unknown

\* C23: a metadata scan that fails does not fail the split: the failure is
\* logged, the endpoint map is empty, and the split goes on; every record it
\* writes is without endpoints (and so without description); and when the split
\* completes, every enumerated stream has its file, its progress event and its
\* record in the manifest.
C23_ScanFailureTolerated ==
    /\ [][\A s \in SplitIds, lookups \in BOOLEAN :
            \A endpoints \in SUBSET Range(splits[s].streamIds) :
                ScanClose(s, FALSE, endpoints, lookups) =>
                    /\ splits'[s].pc \in {"extract", "done"}
                    /\ splits'[s].scanLog = splits[s].scanLog + 1
                    /\ splits'[s].metaIds = {}]_vars
    /\ [](\A s \in SplitIds :
            LET sp == splits[s] IN
            sp.scanLog > 0 =>
                /\ sp.error # "scan"
                /\ \A k \in 1..Len(sp.records) : ~sp.records[k].endpoints
                /\ sp.pc = "done" =>
                        /\ Len(sp.records) = Len(sp.streamIds)
                        /\ sp.progress = ExpectedProgress(sp, Len(sp.streamIds))
                        /\ {f.name : f \in dirs[s].files}
                                = {StreamFileName(id) : id \in sp.enumerated}
                        /\ dirs[s].index.exists
                        /\ dirs[s].index.streams = sp.records)

\* a split of two streams that completed after its metadata scan had failed
C23_Witness ==
    \E s \in SplitIds :
        /\ splits[s].pc = "done" /\ splits[s].scanLog = 1
        /\ Len(dirs[s].index.streams) = 2
        /\ Len(splits[s].progress) = 2

\* the folder invocation s of the splitter writes into
SplitDirOf(s) == s

\* C24: no two invocations of the splitter write into the same folder, and a
\* reconstruction never writes its manifest into the folder of a split that is
\* still running.
C24_ExclusiveSplitDir ==
    /\ [](\A s, t \in UsedSplits : s # t => SplitDirOf(s) # SplitDirOf(t))
    /\ [][\A r \in ReadIds :
            (reads[r].pc = "rebuild" /\ reads'[r].pc = "done" /\ dirs'[reads[r].dir].index.exists)
                => reads[r].dir \notin {SplitDirOf(s) : s \in RunningSplits}]_vars

\* the manifest in folder d is the one the split wrote, not a reconstructed one
SplitManifest(d) == dirs[d].index.exists /\ dirs[d].index.captureFile # ImportedMark

\* C25: a split that completed after enumerating N distinct stream ids has left
\* exactly N stream files in its folder and has written a manifest of exactly N
\* records: one per enumerated id, in ascending id order, with pairwise distinct
\* file names, each the name the convention gives its id.
C25_CleanSplit ==
    /\ [](\A s \in SplitIds :
            LET sp == splits[s]
                N == Cardinality(sp.enumerated)
            IN  sp.pc = "done" =>
                    /\ Cardinality(StreamListing(s)) = N
                    /\ Cardinality(dirs[s].files) = N
                    /\ Len(sp.records) = N
                    /\ {sp.records[k].id : k \in 1..N} = sp.enumerated
                    /\ \A j, k \in 1..N : j < k => sp.records[j].id < sp.records[k].id
                    /\ \A j, k \in 1..N : j # k => sp.records[j].file # sp.records[k].file
                    /\ \A k \in 1..N :
                            /\ sp.records[k].file
                                    = Name("tcp-stream-",
                                           padStart(DigitsOf(sp.records[k].id), PadWidth, 0),
                                           "pcapng")
                            /\ sp.records[k].file \in StreamListing(s)
                    /\ SplitManifest(s) => dirs[s].index.streams = sp.records)
    /\ [][\A s \in SplitIds :
            (splits[s].pc # "done" /\ splits'[s].pc = "done") =>
                /\ dirs'[s].index.exists
                /\ dirs'[s].index.captureFile = splits[s].captureFile
                /\ dirs'[s].index.streams = splits'[s].records]_vars

\* a split of the streams 0, 1 and 2 has completed: three files, three records
C25_Witness ==
    \E s \in SplitIds :
        /\ splits[s].pc = "done" /\ splits[s].enumerated = {0, 1, 2}
        /\ Cardinality(StreamListing(s)) = 3
        /\ SplitManifest(s) /\ Len(dirs[s].index.streams) = 3

Capturing == captureChild # NoProc

\* Idle: no capture process tracked, running = false, splitting = false
Idle ==
    /\ captureChild = NoProc
    /\ ~captureStatus.running
    /\ ~captureStatus.splitting

\* C27: when the capture process exits and every tool of every split closes, a
\* session that is Capturing is later Idle: no capture process tracked,
\* running = false and splitting = false
C27_BackToIdle == Capturing ~> Idle

(* ------------- C28: no reconstruction of a running split -------------- *)
\* request r is served in this step by starting buildSplitIndexFromStreamsDir(d)
RebuildStarts(r, d) ==
    /\ reads[r].pc = "unused"
    /\ reads'[r].pc = "rebuild"
    /\ reads'[r].dir = d

\* request r returns in this step the manifest of folder d
ManifestReturned(r, d) ==
    /\ reads[r].pc # "done"
    /\ reads'[r].pc = "done"
    /\ reads'[r].result.kind = "manifest"
    /\ reads'[r].result.dir = d

\* C28: whichever path is requested, readSplitIndex neither starts the
\* reconstruction of a folder whose split is still running nor returns a manifest
\* for it; a split returns the manifest of its own folder when it has finished.
C28_RunningSplitLeftAlone ==
    [][\A r \in ReadIds, s \in RunningSplits :
            /\ ~RebuildStarts(r, SplitDirOf(s))
            /\ ManifestReturned(r, SplitDirOf(s)) => splits'[s].pc = "done"]_vars

(* ---------------- C29: splitting mirrors the running splits ----------- *)
\* C29: captureStatus.splitting is true exactly when at least one invocation of
\* the splitter is in progress, and while it is true captureStatus.splitDir is
\* the folder of an invocation in progress.
C29_SplittingMirrorsSplits ==
    /\ captureStatus.splitting <=> RunningSplits # {}
    /\ captureStatus.splitting =>
            captureStatus.splitDir \in {SplitDirOf(s) : s \in RunningSplits}

(* ------------- C30: the split after a capture uses its request -------- *)
\* capture process p exits in this step and the exit handler starts split s
ExitStartsSplit(p, s) ==
    /\ procs[p].state = "running"
    /\ procs'[p].state = "exited"
    /\ splits[s].pc = "unused"
    /\ splits'[s].pc # "unused"

\* C30: the split that the exit of a capture starts is given the capture file and
\* the snapLen of that capture's own start request, whatever requests were served
\* while the capture ran.
C30_SplitUsesOwnRequest ==
    [][\A p \in Procs, s \in SplitIds :
            ExitStartsSplit(p, s) =>
                /\ splits'[s].caller = [kind |-> "capture", id |-> p]
                /\ splits'[s].captureFile = p
                /\ splits'[s].snapLen = procs[p].snapLen]_vars

(* ------------------- C31: the events of one split --------------------- *)
\* C31: a progress event of a split is sent only after its split-start event; the
\* split-done event is sent once, in the step that has written the split's
\* manifest, and its totalStreams is the number of progress events sent; a split
\* that fails sends no split-done event.
C31_SplitEvents ==
    /\ [](\A s \in SplitIds :
            LET sp == splits[s]
            IN  /\ sp.progress # <<>> => sp.startEv = 1
                /\ sp.doneEv <= 1
                /\ sp.pc = "done" <=> sp.doneEv = 1
                /\ sp.doneEv = 1 => sp.doneTotal = Len(sp.progress)
                /\ sp.pc = "failed" => sp.doneEv = 0)
    /\ [][\A s \in SplitIds :
            /\ Len(splits'[s].progress) > Len(splits[s].progress) => splits[s].startEv = 1
            /\ splits'[s].doneEv > splits[s].doneEv =>
                    dirs'[s].index = [exists |-> TRUE, captureFile |-> splits[s].captureFile,
                                      streams |-> splits'[s].records]]_vars

\* a split of three streams has completed: three progress events, one split-done
\* event with totalStreams = 3, its manifest in its folder
C31_Witness ==
    \E s \in SplitIds :
        /\ splits[s].pc = "done" /\ splits[s].startEv = 1 /\ splits[s].doneEv = 1
        /\ Len(splits[s].progress) = 3 /\ splits[s].doneTotal = 3
        /\ SplitManifest(s)

(* ----------------- C32: a start request that is refused --------------- *)
\* the request is one the claim names: tshark not found, dump folder missing,
\* empty interface id, or a port outside 1..65535
NamedInvalid(req) ==
    \/ ~req.tsharkFound
    \/ ~req.dumpDirExists
    \/ \A k \in 1..Len(req.ifaceId) : req.ifaceId[k] = " "
    \/ req.port.kind = "num" /\ (req.port.n < 1 \/ req.port.n > 65535)

StartErrors ==
    {"tshark not found", "Dump folder does not exist", "Capture interface is required",
     "Invalid port"}

\* C32: a startCapture request that fails validation answers with an error,
\* spawns no process and leaves captureChild and captureStatus as they were.
C32_InvalidStartChangesNothing ==
    [][\A req \in StartRequests :
            (captureChild = NoProc /\ NamedInvalid(req) /\ StartCapture(OptionsOf(req))) =>
                /\ startReply' \in StartErrors
                /\ UNCHANGED <<captureChild, captureStatus, procs>>]_vars

\* a request has been refused for its port after an earlier capture ended: no
\* process is tracked and the status is still that of the earlier capture
C32_Witness ==
    /\ startReply = "Invalid port"
    /\ captureChild = NoProc
    /\ ~captureStatus.running
    /\ captureStatus.filePath # NoFile
    /\ LiveProcs = {}

(* -------------------------- C33: temp files --------------------------- *)
\* the name of a temp file of an extraction or of a truncation
IsTempName(n) == n.ext \in {"pcapng.tmp", "pcapng.snap.tmp"}

\* C33: the folder of a completed split holds no temp file, whether the truncation
\* of a stream was applied, skipped or failed; a temp file is never taken for a
\* stream file: a folder without stream files does not look like split output, and
\* no listing and no manifest names a temp file.
C33_NoTempFiles ==
    /\ \A s \in SplitIds :
            splits[s].pc = "done" => \A n \in DirEntries(s) : ~IsTempName(n)
    /\ \A d \in SplitIds :
            /\ dirs[d].files = {} => ~isLikelySplitFolder(d)
            /\ \A n \in StreamListing(d) : ~IsTempName(n)
            /\ \A k \in 1..Len(dirs[d].index.streams) : ~IsTempName(dirs[d].index.streams[k].file)
    /\ \A r \in ReadIds :
            /\ \A n \in reads[r].listing : ~IsTempName(n)
            /\ \A k \in 1..Len(reads[r].result.streams) : ~IsTempName(reads[r].result.streams[k].file)

\* a split was aborted at its second extraction and left that temp file beside
\* one stream file; the folder has since been reconstructed into a manifest of
\* one stream
C33_Witness ==
    \E s \in SplitIds :
        /\ splits[s].pc = "failed" /\ splits[s].error = "extract"
        /\ \E n \in dirs[s].tmp : IsTempName(n)
        /\ dirs[s].index.exists /\ dirs[s].index.captureFile = ImportedMark
        /\ Len(dirs[s].index.streams) = 1
        /\ Cardinality(dirs[s].files) = 1

(* --------------------- C34: one tracked stream child ------------------ *)
\* the stream process started last
LatestChild == Cardinality(UsedChildren)

\* C34: the tracked stream process is the one started last if that one has neither
\* exited nor been stopped, and none otherwise; every earlier process that still
\* runs has been signalled; the exit of a process that is not the tracked one
\* leaves the pointer as it is.
C34_OneTrackedChild ==
    /\ [](/\ child = (IF /\ UsedChildren # {}
                         /\ childProcs[LatestChild].state = "running"
                         /\ ~childProcs[LatestChild].signalled
                      THEN LatestChild ELSE NoChild)
          /\ \A k \in UsedChildren :
                (k # LatestChild /\ childProcs[k].state = "running") => childProcs[k].signalled)
    /\ [][\A k \in Children :
            (childProcs[k].state = "running" /\ childProcs'[k].state = "exited" /\ child # k)
                => child' = child]_vars

\* the first process was replaced by a second start and has since exited; the
\* second is running and tracked
C34_Witness ==
    /\ childProcs[1].state = "exited" /\ childProcs[1].signalled
    /\ childProcs[2].state = "running" /\ ~childProcs[2].signalled
    /\ child = 2

(* -------------------- C35: first packet of a stream ------------------- *)
\* the rows of stream id that the scan has parsed so far
RowsSeen(id) == {k \in 1..(scan.next - 1) : scan.rows[k].id = id}

\* C35: the metadata scan of a split holds, for each stream id, the endpoints of
\* the first row of that id and of no later one: the IPv4 address when the row has
\* one, else the IPv6 address, and no endpoint when the row has neither.
C35_FirstPacketWins ==
    scan.mode = "split" =>
        \A id \in 0..1 :
            /\ id \in DOMAIN scan.meta <=> RowsSeen(id) # {}
            /\ RowsSeen(id) # {} =>
                    LET row == scan.rows[SetMin(RowsSeen(id))]
                        m == scan.meta[id]
                    IN  /\ m.src.ip = (IF row.ip4src # NoIp THEN row.ip4src ELSE row.ip6src)
                        /\ m.dst.ip = (IF row.ip4dst # NoIp THEN row.ip4dst ELSE row.ip6dst)
                        /\ (row.ip4src = NoIp /\ row.ip6src = NoIp) => m.src = NoEndpoint
                        /\ (row.ip4dst = NoIp /\ row.ip6dst = NoIp) => m.dst = NoEndpoint

\* two rows of one stream were scanned: the first has only an IPv6 source and no
\* destination, the second has IPv4 addresses; the map holds the first
C35_Witness ==
    /\ scan.mode = "split" /\ scan.next = 3
    /\ scan.rows[1].id = scan.rows[2].id
    /\ scan.rows[1].ip4src = NoIp /\ scan.rows[1].ip6src = <<"6">>
    /\ scan.rows[1].ip4dst = NoIp /\ scan.rows[1].ip6dst = NoIp
    /\ scan.rows[2].ip4src = <<"4">> /\ scan.rows[2].ip4dst = <<"4">>
    /\ scan.meta[scan.rows[1].id].src.ip = <<"6">>
    /\ scan.meta[scan.rows[1].id].dst = NoEndpoint

(* ------------------- C36: derived descriptions ------------------------ *)
\* C36: a record of the manifest has a description exactly when its src and its
\* dst address are both known, and the description is the rendering of the src
\* and dst endpoints the record holds, hostnames included.
C36_DescriptionDerived ==
    \A k \in 1..Len(scan.records) :
        LET rec == scan.records[k]
        IN  /\ rec.description # NoText <=> (rec.src.ip # NoIp /\ rec.dst.ip # NoIp)
            /\ rec.description # NoText =>
                    rec.description =
                        formatEndpoint(rec.src) \o <<" ", "-", ">", " ">> \o formatEndpoint(rec.dst)

\* a manifest with a record whose source has a hostname that shows in its
\* description, and a record without description because an address is missing
C36_Witness ==
    /\ scan.pc = "done"
    /\ \E k \in 1..Len(scan.records) :
            /\ scan.records[k].src.hostnames = << <<"h">> >>
            /\ scan.records[k].description = <<"h", " ", "(", "4", ")", ":", "8", "0", " ", "-", ">", " ", "6", ":", "8", "0">>
    /\ \E k \in 1..Len(scan.records) :
            /\ scan.records[k].src.ip # NoIp /\ scan.records[k].dst.ip = NoIp
            /\ scan.records[k].description = NoText

(* ------------------- C37: resolver settings frozen -------------------- *)
\* C37: every resolver call of a process runs with the switch, the timeout and the
\* concurrency that the environment held when the process started.
C37_SettingsFrozen ==
    \A k \in 1..Len(processEnv.used) : processEnv.used[k] = SettingsOf(processEnv.atStartup)

====
